---- MODULE Spec2Model ----
(***************************************************************************)
(* Voxel world core of wgpu-egui-template: the sparse voxel octree         *)
(* (world/svo.rs), the chunk and the streaming world (world/chunk.rs),     *)
(* the coordinate model (voxel/types.rs), the ray/box test                 *)
(* (raytracing/ray.rs) and the two ray traversals                          *)
(* (raytracing/traversal.rs).                                              *)
(*                                                                         *)
(* Numbers.  Integer quantities (masks, indices, voxel and chunk           *)
(* coordinates) are integers.  World-space f32 quantities are fixed point: *)
(* one world unit is UNIT model units, so VOXEL_SIZE (0.125) is UNIT/8 and *)
(* the tolerance 0.001 is UNIT/1000.  The f32 values +inf, -inf and NaN    *)
(* that the reciprocal of a zero direction component produces are kept as  *)
(* the three values F_INF, -F_INF and F_NAN, with the IEEE rules the code  *)
(* relies on.                                                              *)
(***************************************************************************)
EXTENDS Integers, Sequences, FiniteSets, TLC

VARIABLES
    chunk,            \* a VoxelChunk owned directly by a caller
    written,          \* history: local position -> last id written to `chunk`, or NeverWritten
    chunks,           \* VoxelWorld.chunks : ChunkPos -> VoxelChunk
    render_distance,  \* VoxelWorld.render_distance
    ray,              \* the Ray value handed to the ray functions
    last,             \* the last operation performed, its arguments and what it returned
    nwrites,          \* number of voxel writes made so far (bounded by MaxWrites)
    call,             \* the call in progress (update_around_player, trace_chunk): locals and position
    own_node          \* an OctreeNode value owned directly by a caller

vars == <<chunk, written, chunks, render_distance, ray, last, nwrites, call, own_node>>

----------------------------------------------------------------------------
(* Program constants *)

CHUNK_SIZE == 32
AIR_VOXEL == 0
MAX_RAY_STEPS == 1000

\* One world unit in model units (fixed point).  0.001 = UNIT / 1000 must be
\* an integer, and so must VOXEL_SIZE / 2 = UNIT / 16.
UNIT == 16 * 125
VOXEL_SIZE == UNIT \div 8
CHUNK_WORLD == CHUNK_SIZE * VOXEL_SIZE      \* CHUNK_SIZE_F32 * VOXEL_SIZE
T_EPS == UNIT \div 1000                     \* the literal 0.001

----------------------------------------------------------------------------
(* u32 bit operations used on child_mask / leaf_mask *)

Pow2(i) == 2 ^ i

\* (mask & (1 << i)) != 0
TestBit(mask, i) == (mask \div Pow2(i)) % 2 = 1

\* mask | (1 << i)
OrBit(mask, i) == IF TestBit(mask, i) THEN mask ELSE mask + Pow2(i)

\* mask & !(1 << i)
AndNotBit(mask, i) == IF TestBit(mask, i) THEN mask - Pow2(i) ELSE mask

\* u32::count_ones
RECURSIVE count_ones(_)
count_ones(mask) == IF mask = 0 THEN 0 ELSE (mask % 2) + count_ones(mask \div 2)

\* mask & ((1 << i) - 1)
BitsBelow(mask, i) == mask % Pow2(i)

----------------------------------------------------------------------------
(* VoxelId *)

\* a variant of is_air that never recognises air
is_air_never(voxel_id) == FALSE

is_air(voxel_id) == voxel_id = 0

is_solid(voxel_id) == voxel_id # 0

----------------------------------------------------------------------------
(* OctreeNode *)

new_empty == [child_mask |-> 0, leaf_mask |-> 0, child_ptr |-> 0, voxel_id |-> AIR_VOXEL]

has_child(node, child_index) == TestBit(node.child_mask, child_index)

is_leaf(node, child_index) == TestBit(node.leaf_mask, child_index)

\* a set_child that records a leaf in leaf_mask only
set_child_leaf_only(n, child_index, leaf) ==
    IF leaf
    THEN [n EXCEPT !.leaf_mask = OrBit(n.leaf_mask, child_index)]
    ELSE [n EXCEPT !.child_mask = OrBit(n.child_mask, child_index),
                   !.leaf_mask = AndNotBit(n.leaf_mask, child_index)]

set_child(n, child_index, leaf) ==
    [n EXCEPT !.child_mask = OrBit(n.child_mask, child_index),
              !.leaf_mask = IF leaf THEN OrBit(n.leaf_mask, child_index)
                                    ELSE AndNotBit(n.leaf_mask, child_index)]

remove_child(n, child_index) ==
    [n EXCEPT !.child_mask = AndNotBit(n.child_mask, child_index),
              !.leaf_mask = AndNotBit(n.leaf_mask, child_index)]

----------------------------------------------------------------------------
(* SparseVoxelOctree.  nodes is the pool: pool index i is nodes[i + 1]. *)

SvoNew == [nodes |-> <<new_empty>>, free_indices |-> <<>>, root_size |-> CHUNK_SIZE]

node_count(octree) == Len(octree.nodes)

InPool(octree, index) == index >= 0 /\ index < node_count(octree)

NodeAt(octree, index) == octree.nodes[index + 1]

PutNode(octree, index, node) == [octree EXCEPT !.nodes[index + 1] = node]

\* allocate_node: the octree after the allocation and the index handed out
allocate_node(octree) ==
    IF Len(octree.free_indices) > 0
    THEN LET index == octree.free_indices[Len(octree.free_indices)]
         IN [octree |-> [octree EXCEPT
                            !.free_indices = SubSeq(octree.free_indices, 1,
                                                    Len(octree.free_indices) - 1),
                            !.nodes[index + 1] = new_empty],
             index |-> index]
    ELSE [octree |-> [octree EXCEPT !.nodes = Append(octree.nodes, new_empty)],
          index |-> Len(octree.nodes)]

\* a deallocate_node without the index > 0 test
deallocate_node_unguarded(octree, index) ==
    IF index < Len(octree.nodes)
    THEN [octree EXCEPT !.nodes[index + 1] = new_empty,
                        !.free_indices = Append(octree.free_indices, index)]
    ELSE octree

deallocate_node(octree, index) ==
    IF index > 0 /\ index < Len(octree.nodes)
    THEN [octree EXCEPT !.nodes[index + 1] = new_empty,
                        !.free_indices = Append(octree.free_indices, index)]
    ELSE octree

\* the octant of target_pos inside the node at node_pos: <<cx, cy, cz>>
ChildOffset(target_pos, node_pos, half_size) ==
    <<IF target_pos[1] >= node_pos[1] + half_size THEN 1 ELSE 0,
      IF target_pos[2] >= node_pos[2] + half_size THEN 1 ELSE 0,
      IF target_pos[3] >= node_pos[3] + half_size THEN 1 ELSE 0>>

ChildIndex(child_offset) == child_offset[1] + child_offset[2] * 2 + child_offset[3] * 4

\* child_ptr + popcount(child_mask & ((1 << child_index) - 1))
ChildNodeIndex(node, child_index) ==
    node.child_ptr + count_ones(BitsBelow(node.child_mask, child_index))

\* set_voxel, "Create new child": the missing child of the node at node_index
SetVoxelCreateChild(octree, node_index, node_size, child_index) ==
    IF node_size = 2
    THEN PutNode(octree, node_index, set_child(NodeAt(octree, node_index), child_index, TRUE))
    ELSE LET a == allocate_node(octree)
             marked == set_child(NodeAt(a.octree, node_index), child_index, FALSE)
             linked == IF count_ones(marked.child_mask) = 1
                       THEN [marked EXCEPT !.child_ptr = a.index]
                       ELSE marked
         IN PutNode(a.octree, node_index, linked)

\* a store that empties the node it ends at when the id is air
SetVoxelStoreClearing(octree, node_index, node_size, voxel_id) ==
    IF is_air(voxel_id) THEN PutNode(octree, node_index, new_empty)
    ELSE IF node_size = 1
    THEN PutNode(octree, node_index, [NodeAt(octree, node_index) EXCEPT !.voxel_id = voxel_id])
    ELSE octree

\* set_voxel, after the loop: "Set the voxel in the leaf"
SetVoxelStore(octree, node_index, node_size, voxel_id) ==
    IF node_size = 1
    THEN PutNode(octree, node_index, [NodeAt(octree, node_index) EXCEPT !.voxel_id = voxel_id])
    ELSE octree

\* set_voxel, the while loop from the state (node_index, node_size, node_pos).
\* The result is [octree, panic, created]: panic is the out-of-range pool
\* access, created lists the nodes allocated by the call, each with the node
\* and octant it was allocated for.
RECURSIVE SetVoxelLoop(_, _, _, _, _, _)
SetVoxelLoop(octree, node_index, node_size, node_pos, target_pos, voxel_id) ==
    IF ~InPool(octree, node_index) THEN [octree |-> octree, panic |-> TRUE, created |-> <<>>]
    ELSE IF ~(node_size > 1)
    THEN [octree |-> SetVoxelStore(octree, node_index, node_size, voxel_id), panic |-> FALSE,
          created |-> <<>>]
    ELSE
      LET half_size == node_size \div 2
          child_offset == ChildOffset(target_pos, node_pos, half_size)
          child_index == ChildIndex(child_offset)
          next_pos == <<node_pos[1] + child_offset[1] * half_size,
                        node_pos[2] + child_offset[2] * half_size,
                        node_pos[3] + child_offset[3] * half_size>>
          needs_new_child == ~has_child(NodeAt(octree, node_index), child_index)
      IN IF needs_new_child /\ is_air(voxel_id)
         THEN [octree |-> octree, panic |-> FALSE, created |-> <<>>]
         ELSE
           LET grown == IF needs_new_child
                        THEN SetVoxelCreateChild(octree, node_index, node_size, child_index)
                        ELSE octree
               created_here == IF needs_new_child /\ node_size # 2
                               THEN <<[parent |-> node_index, octant |-> child_index,
                                       index |-> allocate_node(octree).index]>>
                               ELSE <<>>
           IN IF node_size = 2
              THEN [octree |-> SetVoxelStore(grown, node_index, node_size, voxel_id),
                    panic |-> FALSE, created |-> <<>>]
              ELSE [SetVoxelLoop(grown, ChildNodeIndex(NodeAt(grown, node_index), child_index),
                                 half_size, next_pos, target_pos, voxel_id)
                        EXCEPT !.created = created_here \o @]

SvoSetVoxel(octree, pos, voxel_id) ==
    SetVoxelLoop(octree, 0, octree.root_size, <<0, 0, 0>>, pos, voxel_id)

\* get_voxel, the while loop.  The result is [value, panic].
RECURSIVE GetVoxelLoop(_, _, _, _, _)
GetVoxelLoop(octree, node_index, node_size, node_pos, target_pos) ==
    IF ~InPool(octree, node_index) THEN [value |-> AIR_VOXEL, panic |-> TRUE]
    ELSE IF ~(node_size > 1)
    THEN [value |-> NodeAt(octree, node_index).voxel_id, panic |-> FALSE]
    ELSE
      LET half_size == node_size \div 2
          child_offset == ChildOffset(target_pos, node_pos, half_size)
          child_index == ChildIndex(child_offset)
          next_pos == <<node_pos[1] + child_offset[1] * half_size,
                        node_pos[2] + child_offset[2] * half_size,
                        node_pos[3] + child_offset[3] * half_size>>
          current_node == NodeAt(octree, node_index)
      IN IF ~has_child(current_node, child_index)
         THEN [value |-> AIR_VOXEL, panic |-> FALSE]
         ELSE IF is_leaf(current_node, child_index)
         THEN [value |-> current_node.voxel_id, panic |-> FALSE]
         ELSE \* "Move to child node": the next iteration starts from the values
              \* of node_index, node_size and node_pos computed here
              CHOOSE result \in {GetVoxelLoop(octree, index, size, pos, target_pos) :
                                    index \in {ChildNodeIndex(current_node, child_index)},
                                    size \in {half_size}, pos \in {next_pos}} : TRUE

SvoGetVoxel(octree, pos) ==
    GetVoxelLoop(octree, 0, octree.root_size, <<0, 0, 0>>, pos)

----------------------------------------------------------------------------
(* VoxelChunk *)

\* a constructor that leaves the position at the origin
ChunkNewAtOrigin(position) ==
    [position |-> <<0, 0, 0>>, octree |-> SvoNew, is_dirty |-> TRUE, is_generated |-> FALSE]

ChunkNew(position) ==
    [position |-> position, octree |-> SvoNew, is_dirty |-> TRUE, is_generated |-> FALSE]

\* a set_voxel that leaves is_dirty as it was
ChunkSetVoxelKeepingFlag(c, local_pos, voxel_id) ==
    [c EXCEPT !.octree = SvoSetVoxel(c.octree, local_pos, voxel_id).octree]

ChunkSetVoxel(c, local_pos, voxel_id) ==
    [c EXCEPT !.octree = SvoSetVoxel(c.octree, local_pos, voxel_id).octree,
              !.is_dirty = TRUE]

ChunkGetVoxel(c, local_pos) == SvoGetVoxel(c.octree, local_pos).value

is_empty(c) == node_count(c.octree) <= 1 /\ NodeAt(c.octree, 0).child_mask = 0

----------------------------------------------------------------------------
(* f32 values.  A finite value is an integer of model units; F_INF, -F_INF  *)
(* and F_NAN are the IEEE specials.  A direction component is a record       *)
(* [sign, mag]: sign is 1 or -1 (the sign bit, kept for zero too) and mag is *)
(* 0 or 1, so the components are -1.0, -0.0, +0.0 and +1.0.                  *)

Min2(a, b) == IF a < b THEN a ELSE b

Max2(a, b) == IF a > b THEN a ELSE b

Abs(a) == IF a < 0 THEN 0 - a ELSE a

F_INF == 2 ^ 30

F_NAN == F_INF + 1

IsNaN(a) == a = F_NAN

IsInf(a) == a = F_INF \/ a = 0 - F_INF

\* a * b where b is a pure number: 1, -1, +inf or -inf (0 * inf is NaN)
FMul(a, b) ==
    IF IsNaN(a) \/ IsNaN(b) THEN F_NAN
    ELSE IF IsInf(a) \/ IsInf(b)
         THEN (IF a = 0 \/ b = 0 THEN F_NAN
               ELSE IF (a > 0) = (b > 0) THEN F_INF ELSE 0 - F_INF)
    ELSE a * b

\* a + b (inf + -inf is NaN)
FAdd(a, b) ==
    IF IsNaN(a) \/ IsNaN(b) THEN F_NAN
    ELSE IF IsInf(a) /\ IsInf(b) THEN (IF a = b THEN a ELSE F_NAN)
    ELSE IF IsInf(a) THEN a
    ELSE IF IsInf(b) THEN b
    ELSE a + b

FNeg(a) == IF IsNaN(a) THEN F_NAN ELSE 0 - a

FSub(a, b) == FAdd(a, FNeg(b))

FAbs(a) == IF IsNaN(a) THEN F_NAN ELSE Abs(a)

\* a < b and a <= b: false when either side is NaN
FLt(a, b) == ~IsNaN(a) /\ ~IsNaN(b) /\ a < b

FLe(a, b) == ~IsNaN(a) /\ ~IsNaN(b) /\ a <= b

\* f32::min and f32::max: a NaN operand is ignored
FMin(a, b) == IF IsNaN(a) THEN b ELSE IF IsNaN(b) THEN a ELSE Min2(a, b)

FMax(a, b) == IF IsNaN(a) THEN b ELSE IF IsNaN(b) THEN a ELSE Max2(a, b)

\* 1.0 / d for a direction component d
Recip(d) == IF d.mag = 0 THEN d.sign * F_INF ELSE d.sign

\* f32::signum of a direction component: the sign bit decides, also for zero
Signum(d) == d.sign

\* the component as a number
DirValue(d) == d.sign * d.mag

----------------------------------------------------------------------------
(* Coordinate model (voxel/types.rs).  World positions are <<x, y, z>> in    *)
(* model units; a component may be F_INF, -F_INF or F_NAN.                   *)

I32_MAX == 2147483647

I32_MIN == 0 - I32_MAX - 1

\* i32::MAX as f32 * CHUNK_SIZE_F32 * VOXEL_SIZE: a finite f32 beyond every
\* finite coordinate of the model
F_HUGE == 2 ^ 29

\* (w / (CHUNK_SIZE_F32 * VOXEL_SIZE)).floor() as i32: the cast saturates and
\* takes NaN to 0
FloorAsI32(w) ==
    IF IsNaN(w) THEN 0
    ELSE IF w = F_INF THEN I32_MAX
    ELSE IF w = 0 - F_INF THEN I32_MIN
    ELSE w \div CHUNK_WORLD

\* ChunkPos::from_world_pos
from_world_pos(world_pos) ==
    <<FloorAsI32(world_pos[1]), FloorAsI32(world_pos[2]), FloorAsI32(world_pos[3])>>

\* c as f32 * CHUNK_SIZE_F32 * VOXEL_SIZE
ChunkOrigin(c) ==
    IF c = I32_MAX THEN F_HUGE
    ELSE IF c = I32_MIN THEN 0 - F_HUGE
    ELSE c * CHUNK_WORLD

\* ChunkPos::to_world_pos
to_world_pos(chunk_pos) ==
    <<ChunkOrigin(chunk_pos[1]), ChunkOrigin(chunk_pos[2]), ChunkOrigin(chunk_pos[3])>>

\* a local component without the .min(CHUNK_SIZE - 1)
LocalComponentUnclamped(offset) == FMax(offset, 0) \div VOXEL_SIZE

\* one component of the local voxel: (d.max(0.0) as u32).min(CHUNK_SIZE - 1),
\* where d is the offset from the chunk origin divided by VOXEL_SIZE.  max
\* takes NaN to 0.0; +inf is cast to u32::MAX, for which the quotient of
\* F_INF stands.
LocalComponent(offset) == Min2(FMax(offset, 0) \div VOXEL_SIZE, CHUNK_SIZE - 1)

world_to_chunk_and_local(world_pos) ==
    LET chunk_pos == from_world_pos(world_pos)
        chunk_world_pos == to_world_pos(chunk_pos)
    IN [chunk_pos |-> chunk_pos,
        local_pos |-> <<LocalComponent(FSub(world_pos[1], chunk_world_pos[1])),
                        LocalComponent(FSub(world_pos[2], chunk_world_pos[2])),
                        LocalComponent(FSub(world_pos[3], chunk_world_pos[3]))>>]

CHUNK_VOLUME == CHUNK_SIZE * CHUNK_SIZE * CHUNK_SIZE

\* the three debug_assert!s of LocalVoxelPos::new on components that are u32
NewAssertionsHold(p) ==
    /\ p[1] >= 0 /\ p[1] < CHUNK_SIZE
    /\ p[2] >= 0 /\ p[2] < CHUNK_SIZE
    /\ p[3] >= 0 /\ p[3] < CHUNK_SIZE

\* LocalVoxelPos::to_index
to_index(p) == (p[3] * CHUNK_SIZE * CHUNK_SIZE) + (p[2] * CHUNK_SIZE) + p[1]

\* a from_index that takes y without the remainder by CHUNK_SIZE * CHUNK_SIZE
from_index_no_remainder(index) ==
    <<index % CHUNK_SIZE, index \div CHUNK_SIZE, index \div (CHUNK_SIZE * CHUNK_SIZE)>>

\* LocalVoxelPos::from_index: <<x, y, z>> as handed to LocalVoxelPos::new
from_index(index) ==
    LET z == index \div (CHUNK_SIZE * CHUNK_SIZE)
        y == (index % (CHUNK_SIZE * CHUNK_SIZE)) \div CHUNK_SIZE
        x == index % CHUNK_SIZE
    IN <<x, y, z>>

\* LocalVoxelPos::to_vec3() * VOXEL_SIZE added to the chunk origin
VoxelWorldPos(chunk_world_pos, local_pos) ==
    <<chunk_world_pos[1] + local_pos[1] * VOXEL_SIZE,
      chunk_world_pos[2] + local_pos[2] * VOXEL_SIZE,
      chunk_world_pos[3] + local_pos[3] * VOXEL_SIZE>>

----------------------------------------------------------------------------
(* Terrain generation (VoxelChunk::generate_terrain).                        *)
(*                                                                           *)
(* The density source is the external Perlin noise.  Here it is one fixed    *)
(* deterministic field: positive exactly on the voxels whose local cell is   *)
(* in TerrainCells and whose world height is below one world unit, so the    *)
(* z/y/x loops of generate_terrain write only at those cells and every other *)
(* cell is air.                                                              *)

\* cells where the field can be positive, in the loop's order (z, then y, then x)
TerrainCells == << <<0, 0, 0>>, <<16, 0, 0>>, <<0, 16, 0>> >>

\* noise.get([x * 0.05, y * 0.05, z * 0.05]) > 0.0
DensityPositive(world_pos) ==
    /\ world_to_chunk_and_local(world_pos).local_pos \in
           {TerrainCells[i] : i \in 1..Len(TerrainCells)}
    /\ world_pos[2] < UNIT

\* noise.get([x * 0.1, z * 0.1, 0.0]) > 0.3
MaterialNoiseHigh(world_pos) == world_pos[1] >= 0

\* materials.len() after VoxelWorld::new
MaterialCount == 6

\* the voxel id generate_terrain chooses at world_pos
TerrainVoxel(world_pos) ==
    IF DensityPositive(world_pos)
    THEN LET material_index ==
                 IF world_pos[2] < 0 - 50 * UNIT THEN 1          \* height_factor < -0.5
                 ELSE IF world_pos[2] < 0
                      THEN (IF MaterialNoiseHigh(world_pos) THEN 2 ELSE 3)
                 ELSE IF world_pos[2] < 50 * UNIT THEN 4         \* height_factor < 0.5
                 ELSE 5
         IN Min2(material_index, MaterialCount - 1)
    ELSE AIR_VOXEL

\* the loop body for the cells TerrainCells[i..]
RECURSIVE TerrainLoop(_, _)
TerrainLoop(c, i) ==
    IF i > Len(TerrainCells) THEN c
    ELSE LET local_pos == TerrainCells[i]
             voxel_id == TerrainVoxel(VoxelWorldPos(to_world_pos(c.position), local_pos))
         IN TerrainLoop(IF is_solid(voxel_id) THEN ChunkSetVoxel(c, local_pos, voxel_id) ELSE c,
                        i + 1)

\* generate_terrain without the is_generated check
generate_terrain_unguarded(c) ==
    [TerrainLoop(c, 1) EXCEPT !.is_generated = TRUE, !.is_dirty = TRUE]

\* generate_terrain without the assignment is_generated = true
generate_terrain_unflagged(c) ==
    IF c.is_generated THEN c
    ELSE [TerrainLoop(c, 1) EXCEPT !.is_dirty = TRUE]

generate_terrain(c) ==
    IF c.is_generated THEN c
    ELSE [TerrainLoop(c, 1) EXCEPT !.is_generated = TRUE, !.is_dirty = TRUE]

----------------------------------------------------------------------------
(* VoxelWorld *)

\* the box the nested x/y/z loops enumerate
BoxAround(player_chunk, rd) ==
    {<<player_chunk[1] + x, player_chunk[2] + y, player_chunk[3] + z>> :
        x \in (0 - rd)..rd, y \in (0 - rd)..rd, z \in (0 - rd)..rd}

\* chunks_to_generate: the box positions the map does not contain
ChunksToGenerateAll(chs, player_chunk, rd) == BoxAround(player_chunk, rd)

ChunksToGenerate(chs, player_chunk, rd) ==
    {chunk_pos \in BoxAround(player_chunk, rd) : chunk_pos \notin DOMAIN chs}

\* new_chunks: one generated chunk per position (the parallel map, collected)
NewChunks(to_generate) ==
    [chunk_pos \in to_generate |-> generate_terrain(ChunkNew(chunk_pos))]

\* "Add generated chunks": insert each (pos, chunk), replacing an existing entry
InsertAll(chs, new_chunks) ==
    [chunk_pos \in (DOMAIN chs) \cup (DOMAIN new_chunks) |->
        IF chunk_pos \in DOMAIN new_chunks THEN new_chunks[chunk_pos] ELSE chs[chunk_pos]]

\* the eviction filter with >= in place of >
IsDistantInclusive(chunk_pos, player_chunk, rd) ==
    \/ Abs(chunk_pos[1] - player_chunk[1]) >= rd
    \/ Abs(chunk_pos[2] - player_chunk[2]) >= rd
    \/ Abs(chunk_pos[3] - player_chunk[3]) >= rd

\* the eviction filter: dx > rd || dy > rd || dz > rd
IsDistant(chunk_pos, player_chunk, rd) ==
    \/ Abs(chunk_pos[1] - player_chunk[1]) > rd
    \/ Abs(chunk_pos[2] - player_chunk[2]) > rd
    \/ Abs(chunk_pos[3] - player_chunk[3]) > rd

\* chunks_to_remove: the keys of the map, after the insertions, that the filter keeps
ChunksToRemove(keys, player_chunk, rd) ==
    {chunk_pos \in keys : IsDistant(chunk_pos, player_chunk, rd)}

\* a removal that rebuilds the map from regenerated chunks
RemoveAllRebuilding(chs, to_remove) ==
    [chunk_pos \in (DOMAIN chs) \ to_remove |-> generate_terrain(ChunkNew(chunk_pos))]

\* a removal loop that removes nothing
RemoveNone(chs, to_remove) == chs

RemoveAll(chs, to_remove) == [chunk_pos \in (DOMAIN chs) \ to_remove |-> chs[chunk_pos]]

\* update_around_player: the map after the call
update_around_player(chs, rd, player_pos) ==
    LET player_chunk == from_world_pos(player_pos)
        to_generate == ChunksToGenerate(chs, player_chunk, rd)
        to_remove == ChunksToRemove((DOMAIN chs) \cup to_generate, player_chunk, rd)
    IN RemoveAll(InsertAll(chs, NewChunks(to_generate)), to_remove)

\* a set_voxel that creates the chunk it does not find
WorldSetVoxelCreating(chs, world_pos, voxel_id) ==
    LET t == world_to_chunk_and_local(world_pos)
        c == IF t.chunk_pos \in DOMAIN chs THEN chs[t.chunk_pos] ELSE ChunkNew(t.chunk_pos)
    IN [chunk_pos \in (DOMAIN chs) \cup {t.chunk_pos} |->
           IF chunk_pos = t.chunk_pos THEN ChunkSetVoxel(c, t.local_pos, voxel_id)
           ELSE chs[chunk_pos]]

\* VoxelWorld::set_voxel: the map after the call
WorldSetVoxel(chs, world_pos, voxel_id) ==
    LET t == world_to_chunk_and_local(world_pos)
    IN IF t.chunk_pos \in DOMAIN chs
       THEN [chs EXCEPT ![t.chunk_pos] = ChunkSetVoxel(chs[t.chunk_pos], t.local_pos, voxel_id)]
       ELSE chs

\* a get_voxel that answers the first material for a chunk it does not find
WorldGetVoxelDefaultSolid(chs, world_pos) ==
    LET t == world_to_chunk_and_local(world_pos)
    IN IF t.chunk_pos \in DOMAIN chs
       THEN ChunkGetVoxel(chs[t.chunk_pos], t.local_pos)
       ELSE 1

\* VoxelWorld::get_voxel: the id returned
WorldGetVoxel(chs, world_pos) ==
    LET t == world_to_chunk_and_local(world_pos)
    IN IF t.chunk_pos \in DOMAIN chs
       THEN ChunkGetVoxel(chs[t.chunk_pos], t.local_pos)
       ELSE AIR_VOXEL

----------------------------------------------------------------------------
(* Ray and ray_aabb_intersect (raytracing/ray.rs) *)

\* Ray::at
RayAt(r, t) ==
    <<FAdd(r.origin[1], DirValue(r.direction[1]) * t),
      FAdd(r.origin[2], DirValue(r.direction[2]) * t),
      FAdd(r.origin[3], DirValue(r.direction[3]) * t)>>

\* t_near without the clamp to zero
AabbTNearUnclamped(tmin) == FMax(FMax(tmin[1], tmin[2]), tmin[3])

\* t_near = tmin.x.max(tmin.y).max(tmin.z).max(0.0)
AabbTNear(tmin) == FMax(FMax(FMax(tmin[1], tmin[2]), tmin[3]), 0)

\* t_far = tmax.x.min(tmax.y).min(tmax.z)
AabbTFar(tmax) == FMin(FMin(tmax[1], tmax[2]), tmax[3])

\* the acceptance test without the t_far > 0 part
AabbAcceptsBehind(t_near, t_far) == FLe(t_near, t_far)

\* t_near <= t_far && t_far > 0.0
AabbAccepts(t_near, t_far) == FLe(t_near, t_far) /\ FLt(0, t_far)

\* ray_aabb_intersect: [some, t_near, t_far]; some = FALSE is None
ray_aabb_intersect(r, min, max) ==
    LET t1 == [a \in 1..3 |-> FMul(FSub(min[a], r.origin[a]), Recip(r.direction[a]))]
        t2 == [a \in 1..3 |-> FMul(FSub(max[a], r.origin[a]), Recip(r.direction[a]))]
        tmin == [a \in 1..3 |-> FMin(t1[a], t2[a])]
        tmax == [a \in 1..3 |-> FMax(t1[a], t2[a])]
        t_near == AabbTNear(tmin)
        t_far == AabbTFar(tmax)
    IN [some |-> AabbAccepts(t_near, t_far), t_near |-> t_near, t_far |-> t_far]

----------------------------------------------------------------------------
(* RayHit *)

new_miss == [hit |-> FALSE, position |-> <<0, 0, 0>>, normal |-> <<0, 1, 0>>,
             material_id |-> 0, distance |-> F_INF]

new_hit(position, normal, material_id, distance) ==
    [hit |-> TRUE, position |-> position, normal |-> normal,
     material_id |-> material_id, distance |-> distance]

\* floor of the square root, by bisection on [lo, hi]
RECURSIVE SqrtBetween(_, _, _)
SqrtBetween(n, lo, hi) ==
    IF lo >= hi THEN lo
    ELSE LET mid == (lo + hi + 1) \div 2
         IN IF mid * mid <= n THEN SqrtBetween(n, mid, hi) ELSE SqrtBetween(n, lo, mid - 1)

\* Vec3::length, rounded down to a model unit; NaN if a component is NaN
Length(v) ==
    IF IsNaN(v[1]) \/ IsNaN(v[2]) \/ IsNaN(v[3]) THEN F_NAN
    ELSE SqrtBetween(v[1] * v[1] + v[2] * v[2] + v[3] * v[3], 0, 16 * UNIT)

VecSub(a, b) == <<FSub(a[1], b[1]), FSub(a[2], b[2]), FSub(a[3], b[3])>>

----------------------------------------------------------------------------
(* ChunkRaytracer (raytracing/traversal.rs).  current_pos is in voxels;      *)
(* side_dist and delta are kept multiplied by VOXEL_SIZE, which leaves every *)
(* comparison between them as in the code.                                   *)

\* delta = (1.0 / direction).abs(), times VOXEL_SIZE
DdaDelta(r) == [a \in 1..3 |-> FMul(VOXEL_SIZE, FAbs(Recip(r.direction[a])))]

\* (step * (current_pos - local_pos) + (step * 0.5) + 0.5) * delta
DdaSideDist(r, current_pos, local_pos) ==
    [a \in 1..3 |->
        IF IsNaN(local_pos[a]) THEN F_NAN
        ELSE FMul(Signum(r.direction[a]) * (current_pos[a] * VOXEL_SIZE - local_pos[a])
                      + Signum(r.direction[a]) * (VOXEL_SIZE \div 2) + VOXEL_SIZE \div 2,
                  FAbs(Recip(r.direction[a])))]

\* the f32 comparisons of the bounds check: a NaN coordinate passes
InChunkBounds(current_pos) ==
    \A a \in 1..3 : ~(FLt(current_pos[a], 0) \/ FLe(CHUNK_SIZE, current_pos[a]))

\* `as u32` of an f32 coordinate: saturating, NaN becomes 0
AsU32(x) == IF IsNaN(x) \/ x < 0 THEN 0 ELSE x

\* LocalVoxelPos::new(current_pos.x as u32, current_pos.y as u32, current_pos.z as u32)
DdaLocalVoxelPos(current_pos) ==
    <<AsU32(current_pos[1]), AsU32(current_pos[2]), AsU32(current_pos[3])>>

\* local_pos.floor(), in voxels
DdaFloor(local_pos) ==
    [a \in 1..3 |-> IF IsNaN(local_pos[a]) THEN F_NAN ELSE local_pos[a] \div VOXEL_SIZE]

\* the axis the DDA advances: x, else y, else z
DdaAxis(side_dist) ==
    IF FLt(side_dist[1], side_dist[2]) /\ FLt(side_dist[1], side_dist[3]) THEN 1
    ELSE IF FLt(side_dist[2], side_dist[3]) THEN 2
    ELSE 3

\* the normal of the face that was hit
DdaNormal(r, side_dist, delta) ==
    LET back == [a \in 1..3 |-> FSub(side_dist[a], delta[a])]
    IN IF FLt(back[1], back[2]) /\ FLt(back[1], back[3])
       THEN <<0 - Signum(r.direction[1]), 0, 0>>
       ELSE IF FLt(back[2], back[3])
       THEN <<0, 0 - Signum(r.direction[2]), 0>>
       ELSE <<0, 0, 0 - Signum(r.direction[3])>>

\* the hit record for a solid voxel at current_pos
DdaHit(r, chunk_min, current_pos, side_dist, delta, voxel_id) ==
    LET voxel_world_pos ==
            [a \in 1..3 |-> IF IsNaN(current_pos[a]) THEN F_NAN
                            ELSE chunk_min[a] + current_pos[a] * VOXEL_SIZE + VOXEL_SIZE \div 2]
    IN new_hit(voxel_world_pos, DdaNormal(r, side_dist, delta), voxel_id,
               Length(VecSub(voxel_world_pos, r.origin)))

\* the for loop of dda_traverse from iteration i
RECURSIVE DdaLoop(_, _, _, _, _, _)
DdaLoop(r, c, chunk_min, current_pos, side_dist, i) ==
    IF i >= MAX_RAY_STEPS THEN new_miss
    ELSE IF ~InChunkBounds(current_pos) THEN new_miss
    ELSE LET voxel_id == ChunkGetVoxel(c, DdaLocalVoxelPos(current_pos))
             delta == DdaDelta(r)
             axis == DdaAxis(side_dist)
         IN IF is_solid(voxel_id)
            THEN DdaHit(r, chunk_min, current_pos, side_dist, delta, voxel_id)
            ELSE DdaLoop(r, c, chunk_min,
                         [current_pos EXCEPT ![axis] = FAdd(@, Signum(r.direction[axis]))],
                         [side_dist EXCEPT ![axis] = FAdd(@, delta[axis])],
                         i + 1)

dda_traverse(r, c, chunk_min, t_start) ==
    LET local_pos == VecSub(RayAt(r, t_start), chunk_min)
        current_pos == DdaFloor(local_pos)
    IN DdaLoop(r, c, chunk_min, current_pos, DdaSideDist(r, current_pos, local_pos), 0)

ChunkMax(chunk_min) ==
    <<chunk_min[1] + CHUNK_WORLD, chunk_min[2] + CHUNK_WORLD, chunk_min[3] + CHUNK_WORLD>>

trace_chunk(r, c) ==
    LET chunk_min == to_world_pos(c.position)
        i == ray_aabb_intersect(r, chunk_min, ChunkMax(chunk_min))
    IN IF i.some /\ FLt(0, i.t_far)
       THEN dda_traverse(r, c, chunk_min, FMax(i.t_near, T_EPS))
       ELSE new_miss

----------------------------------------------------------------------------
(* OctreeRaytracer *)

\* the approximate normal of traverse_node: the largest component of the
\* normalised offset from the voxel centre; the zero offset normalises to NaN
OctreeNormal(hit_pos, voxel_center) ==
    LET to_center == VecSub(hit_pos, voxel_center)
        sgn(x) == IF x < 0 THEN 0 - 1 ELSE 1
    IN IF to_center = <<0, 0, 0>> THEN <<0, 0, F_NAN>>
       ELSE IF Abs(to_center[1]) > Abs(to_center[2]) /\ Abs(to_center[1]) > Abs(to_center[3])
       THEN <<sgn(to_center[1]), 0, 0>>
       ELSE IF Abs(to_center[2]) > Abs(to_center[3])
       THEN <<0, sgn(to_center[2]), 0>>
       ELSE <<0, 0, sgn(to_center[3])>>

\* the leaf level of traverse_node
TraverseLeaf(r, node, node_min, node_size, t_start) ==
    IF node.voxel_id # AIR_VOXEL
    THEN LET hit_pos == RayAt(r, t_start)
             voxel_center == <<node_min[1] + node_size \div 2, node_min[2] + node_size \div 2,
                               node_min[3] + node_size \div 2>>
         IN new_hit(hit_pos, OctreeNormal(hit_pos, voxel_center), node.voxel_id,
                    Length(VecSub(hit_pos, r.origin)))
    ELSE new_miss

\* child_min of octant child_idx
ChildMin(node_min, half_size, child_idx) ==
    <<node_min[1] + (IF TestBit(child_idx, 0) THEN half_size ELSE 0),
      node_min[2] + (IF TestBit(child_idx, 1) THEN half_size ELSE 0),
      node_min[3] + (IF TestBit(child_idx, 2) THEN half_size ELSE 0)>>

\* traverse_node, and its loop over the octants child_idx..7 with the closest
\* hit found so far
RECURSIVE TraverseNode(_, _, _, _, _, _)
RECURSIVE TraverseChildren(_, _, _, _, _, _, _)
TraverseChildren(r, octree, node_index, node_min, node_size, child_idx, closest_hit) ==
    IF child_idx > 7 THEN closest_hit
    ELSE
      LET node == NodeAt(octree, node_index)
          half_size == node_size \div 2
          child_min == ChildMin(node_min, half_size, child_idx)
          child_max == <<child_min[1] + half_size, child_min[2] + half_size,
                         child_min[3] + half_size>>
          i == ray_aabb_intersect(r, child_min, child_max)
          child_node_index == IF TestBit(node.leaf_mask, child_idx)
                              THEN node_index
                              ELSE ChildNodeIndex(node, child_idx)
          visited == TestBit(node.child_mask, child_idx) /\ i.some
                         /\ FLt(i.t_near, closest_hit.distance)
          hit == TraverseNode(r, octree, child_node_index, child_min, half_size,
                              FMax(i.t_near, T_EPS))
      IN TraverseChildren(r, octree, node_index, node_min, node_size, child_idx + 1,
                          IF visited /\ hit.hit /\ FLt(hit.distance, closest_hit.distance)
                          THEN hit ELSE closest_hit)

TraverseNode(r, octree, node_index, node_min, node_size, t_start) ==
    IF node_index >= node_count(octree) THEN new_miss
    ELSE IF node_size <= VOXEL_SIZE
    THEN TraverseLeaf(r, NodeAt(octree, node_index), node_min, node_size, t_start)
    ELSE TraverseChildren(r, octree, node_index, node_min, node_size, 0, new_miss)

trace_octree(r, octree, chunk_min) ==
    LET i == ray_aabb_intersect(r, chunk_min, ChunkMax(chunk_min))
    IN IF i.some /\ FLe(0, i.t_near)
       THEN TraverseNode(r, octree, 0, chunk_min, CHUNK_WORLD, FMax(i.t_near, T_EPS))
       ELSE new_miss

\* whether traverse_node, started as TraverseNode is, takes the
\* `node_index >= octree.node_count()` return in this call or a call below it
RECURSIVE TraverseNodeOutOfRange(_, _, _, _, _)
RECURSIVE TraverseChildrenOutOfRange(_, _, _, _, _, _, _)
TraverseChildrenOutOfRange(r, octree, node_index, node_min, node_size, child_idx, closest_hit) ==
    IF child_idx > 7 THEN FALSE
    ELSE
      LET node == NodeAt(octree, node_index)
          half_size == node_size \div 2
          child_min == ChildMin(node_min, half_size, child_idx)
          child_max == <<child_min[1] + half_size, child_min[2] + half_size,
                         child_min[3] + half_size>>
          i == ray_aabb_intersect(r, child_min, child_max)
          child_node_index == IF TestBit(node.leaf_mask, child_idx)
                              THEN node_index
                              ELSE ChildNodeIndex(node, child_idx)
          visited == TestBit(node.child_mask, child_idx) /\ i.some
                         /\ FLt(i.t_near, closest_hit.distance)
          hit == TraverseNode(r, octree, child_node_index, child_min, half_size,
                              FMax(i.t_near, T_EPS))
      IN \/ visited /\ TraverseNodeOutOfRange(r, octree, child_node_index, child_min, half_size)
         \/ TraverseChildrenOutOfRange(r, octree, node_index, node_min, node_size, child_idx + 1,
                                       IF visited /\ hit.hit
                                          /\ FLt(hit.distance, closest_hit.distance)
                                       THEN hit ELSE closest_hit)

TraverseNodeOutOfRange(r, octree, node_index, node_min, node_size) ==
    IF node_index >= node_count(octree) THEN TRUE
    ELSE IF node_size <= VOXEL_SIZE THEN FALSE
    ELSE TraverseChildrenOutOfRange(r, octree, node_index, node_min, node_size, 0, new_miss)

\* trace_octree: whether the traversal met a node index outside the pool
TraceOctreeOutOfRange(r, octree, chunk_min) ==
    LET i == ray_aabb_intersect(r, chunk_min, ChunkMax(chunk_min))
    IN i.some /\ FLe(0, i.t_near)
       /\ TraverseNodeOutOfRange(r, octree, 0, chunk_min, CHUNK_WORLD)

----------------------------------------------------------------------------
(* Inputs of the model *)

\* Local positions the callers use: neighbours inside one size-2 node, the
\* other octants of the root, and the far corner.
LocalPositions == {<<0, 0, 0>>, <<1, 0, 0>>, <<0, 2, 0>>, <<16, 0, 0>>, <<0, 16, 0>>,
                   <<31, 31, 31>>}

\* Positions of a dense region: seven of the eight voxels of the size-2 node
\* at the chunk origin, and the voxel (18,2,2) of the root's octant 1
DescentPositions == {<<0, 0, 0>>, <<1, 0, 0>>, <<0, 1, 0>>, <<1, 1, 0>>, <<0, 0, 1>>,
                     <<1, 0, 1>>, <<0, 1, 1>>, <<18, 2, 2>>}

\* Voxel writes per run
MaxWrites == 2

\* Voxel writes per run into the dense region
MaxDescentWrites == 8

\* air and two materials
VoxelIds == {0, 1, 7}

NeverWritten == 0 - 1

\* no call is in progress
IdleCall == [pc |-> "idle"]

----------------------------------------------------------------------------
(* Operations on the directly owned chunk *)

\* one set_voxel call with arguments from the given sets, while fewer than
\* max_writes calls were made; a call that panicked ended the run
SetVoxelStepBounded(positions, ids, max_writes) ==
    \E p \in positions, v \in ids :
        /\ nwrites < max_writes
        /\ ~(last.op = "set_voxel" /\ last.panic)
        /\ nwrites' = nwrites + 1
        /\ chunk' = ChunkSetVoxel(chunk, p, v)
        /\ written' = [written EXCEPT ![p] = v]
        /\ last' = [op |-> "set_voxel", pos |-> p, id |-> v, ret |-> 0,
                    fresh |-> written[p] = NeverWritten,
                    was_dirty |-> chunk.is_dirty,
                    created |-> SvoSetVoxel(chunk.octree, p, v).created,
                    panic |-> SvoSetVoxel(chunk.octree, p, v).panic]
        /\ UNCHANGED <<chunks, render_distance, ray, call, own_node>>

SetVoxelStep(positions, ids) == SetVoxelStepBounded(positions, ids, MaxWrites)

DoSetVoxel == SetVoxelStep(LocalPositions, VoxelIds)

DoGetVoxel ==
    \E p \in LocalPositions :
        /\ last' = [op |-> "get_voxel", pos |-> p, id |-> 0,
                    ret |-> ChunkGetVoxel(chunk, p),
                    fresh |-> written[p] = NeverWritten,
                    panic |-> SvoGetVoxel(chunk.octree, p).panic]
        /\ UNCHANGED <<chunk, written, chunks, render_distance, ray, nwrites, call, own_node>>

\* generate_terrain on the directly owned chunk; the history records the
\* solid cells the generator wrote
DoGenerateTerrain ==
    /\ chunk' = generate_terrain(chunk)
    /\ written' = [p \in DOMAIN written |->
                      LET voxel_id == TerrainVoxel(VoxelWorldPos(to_world_pos(chunk.position), p))
                      IN IF ~chunk.is_generated /\ is_solid(voxel_id)
                            /\ p \in {TerrainCells[i] : i \in 1..Len(TerrainCells)}
                         THEN voxel_id ELSE written[p]]
    /\ last' = [op |-> "generate_terrain", was_generated |-> chunk.is_generated]
    /\ UNCHANGED <<chunks, render_distance, ray, nwrites, call, own_node>>

\* the owner of the chunk takes its data and clears the public is_dirty field
DoMarkClean ==
    /\ chunk.is_dirty
    /\ chunk' = [chunk EXCEPT !.is_dirty = FALSE]
    /\ last' = [op |-> "mark_clean"]
    /\ UNCHANGED <<written, chunks, render_distance, ray, nwrites, call, own_node>>

Init ==
    /\ chunk = ChunkNew(<<0, 0, 0>>)
    /\ written = [p \in LocalPositions \cup DescentPositions |-> NeverWritten]
    /\ chunks = <<>>
    /\ render_distance = 8
    /\ ray = [origin |-> <<0, 0, 0>>, direction |-> <<0, 0, 0>>]
    /\ last = [op |-> "init"]
    /\ nwrites = 0
    /\ call = IdleCall
    /\ own_node = new_empty

Next == DoSetVoxel \/ DoGetVoxel \/ DoGenerateTerrain \/ DoMarkClean

Spec == Init /\ [][Next]_vars

----------------------------------------------------------------------------
(* Operations on the world *)

\* Largest render distance update_around_player is run with
MaxRenderDistance == 1

\* Voxel writes through the world per run
MaxWorldWrites == 1

\* Viewpoints: the origin, just below zero on x (chunk -1), exactly one chunk
\* side along x (chunk 1), and the camera's start height (chunk y = 1).
Viewpoints == {<<0, 0, 0>>, <<0 - UNIT \div 10, 0, 0>>, <<CHUNK_WORLD, 0, 0>>, <<0, 5 * UNIT, 0>>}

\* World positions read and written: the centre of voxel (0,0,0) of chunk
\* (0,0,0), a point of chunk (-1,0,0), voxel (16,0,0) of chunk (0,0,0), and a
\* point of chunk (3,0,0), which no viewpoint brings into the box.
WorldPositions ==
    {<<VOXEL_SIZE \div 2, VOXEL_SIZE \div 2, VOXEL_SIZE \div 2>>,
     <<0 - UNIT \div 20, VOXEL_SIZE \div 2, VOXEL_SIZE \div 2>>,
     <<16 * VOXEL_SIZE + VOXEL_SIZE \div 2, VOXEL_SIZE \div 2, VOXEL_SIZE \div 2>>,
     <<3 * CHUNK_WORLD + VOXEL_SIZE \div 2, VOXEL_SIZE \div 2, VOXEL_SIZE \div 2>>}

DoSetRenderDistance ==
    \E distance \in 0..MaxRenderDistance :
        /\ render_distance' = distance
        /\ last' = [op |-> "set_render_distance", distance |-> distance]
        /\ UNCHANGED <<chunk, written, chunks, ray, nwrites, call, own_node>>

DoUpdate ==
    \E player_pos \in Viewpoints :
        /\ render_distance <= MaxRenderDistance
        /\ chunks' = update_around_player(chunks, render_distance, player_pos)
        /\ LET player_chunk == from_world_pos(player_pos)
               to_generate == ChunksToGenerate(chunks, player_chunk, render_distance)
           IN last' = [op |-> "update", viewpoint |-> player_pos,
                       player_chunk |-> player_chunk,
                       generated |-> to_generate,
                       removed |-> ChunksToRemove((DOMAIN chunks) \cup to_generate,
                                                  player_chunk, render_distance)]
        /\ UNCHANGED <<chunk, written, render_distance, ray, nwrites, call, own_node>>

DoWorldSetVoxel ==
    \E world_pos \in WorldPositions, v \in VoxelIds :
        /\ nwrites < MaxWorldWrites
        /\ nwrites' = nwrites + 1
        /\ chunks' = WorldSetVoxel(chunks, world_pos, v)
        /\ last' = LET chunk_pos == world_to_chunk_and_local(world_pos).chunk_pos
                   IN [op |-> "world_set", world_pos |-> world_pos, id |-> v, ret |-> 0,
                       resident |-> chunk_pos \in DOMAIN chunks,
                       was_dirty |-> IF chunk_pos \in DOMAIN chunks
                                     THEN chunks[chunk_pos].is_dirty ELSE FALSE]
        /\ UNCHANGED <<chunk, written, render_distance, ray, call, own_node>>

DoWorldGetVoxel ==
    \E world_pos \in WorldPositions :
        /\ last' = [op |-> "world_get", world_pos |-> world_pos, id |-> 0,
                    ret |-> WorldGetVoxel(chunks, world_pos),
                    resident |-> world_to_chunk_and_local(world_pos).chunk_pos \in DOMAIN chunks]
        /\ UNCHANGED <<chunk, written, chunks, render_distance, ray, nwrites, call, own_node>>

NextWorld == DoSetRenderDistance \/ DoUpdate \/ DoWorldSetVoxel \/ DoWorldGetVoxel

SpecWorld == Init /\ [][NextWorld]_vars

----------------------------------------------------------------------------
(* Ray/box tests *)

\* direction components: -1.0, -0.0, +0.0, +1.0
DirComponents == {[sign |-> sg, mag |-> mg] : sg \in {0 - 1, 1}, mg \in {0, 1}}

\* every direction with unit or zero components, except the zero vector
Directions ==
    {<<dx, dy, dz>> : dx \in DirComponents, dy \in DirComponents, dz \in DirComponents}
        \ {d \in {<<dx, dy, dz>> : dx \in DirComponents, dy \in DirComponents,
                                   dz \in DirComponents} :
              d[1].mag = 0 /\ d[2].mag = 0 /\ d[3].mag = 0}

\* origin coordinates: before the box, on its lower face, inside, on its
\* upper face, beyond it (for the chunk-sized box at the world origin)
OriginCoords == {0 - UNIT, 0, VOXEL_SIZE \div 2, CHUNK_WORLD, CHUNK_WORLD + UNIT}

AabbOrigins == {<<x, y, z>> : x \in OriginCoords, y \in OriginCoords, z \in OriginCoords}

\* boxes: the chunk at the world origin and the voxel (0,0,0) in it
AabbBoxes == {[min |-> <<0, 0, 0>>, max |-> <<CHUNK_WORLD, CHUNK_WORLD, CHUNK_WORLD>>],
              [min |-> <<0, 0, 0>>, max |-> <<VOXEL_SIZE, VOXEL_SIZE, VOXEL_SIZE>>]}

InitAabb ==
    /\ chunk = ChunkNew(<<0, 0, 0>>)
    /\ written = [p \in LocalPositions \cup DescentPositions |-> NeverWritten]
    /\ chunks = <<>>
    /\ render_distance = 8
    /\ ray \in {[origin |-> o, direction |-> d] : o \in AabbOrigins, d \in Directions}
    /\ last = [op |-> "init"]
    /\ nwrites = 0
    /\ call = IdleCall
    /\ own_node = new_empty

DoRayAabbIntersect ==
    \E box \in AabbBoxes :
        /\ last' = [op |-> "ray_aabb_intersect", min |-> box.min, max |-> box.max,
                    result |-> ray_aabb_intersect(ray, box.min, box.max)]
        /\ UNCHANGED <<chunk, written, chunks, render_distance, ray, nwrites, call, own_node>>

NextAabb == DoRayAabbIntersect

SpecAabb == InitAabb /\ [][NextAabb]_vars

----------------------------------------------------------------------------
(* Ray traversal of the directly owned chunk *)

PlusOne == [sign |-> 1, mag |-> 1]
MinusOne == [sign |-> 0 - 1, mag |-> 1]
PlusZero == [sign |-> 1, mag |-> 0]
MinusZero == [sign |-> 0 - 1, mag |-> 0]

HalfVoxel == VOXEL_SIZE \div 2

\* The ray of the origin-chunk scenario: from (-1, 0.0625, 0.0625) along +x
ScenarioRay == [origin |-> <<0 - UNIT, HalfVoxel, HalfVoxel>>,
                direction |-> <<PlusOne, PlusZero, PlusZero>>]

\* Rays traced: the scenario ray; the same with -0.0 components; from beyond
\* the far corner along -x; from inside the chunk along -x; along +y through
\* the column x = z = 0; a diagonal through the (0,0) edge; a ray that points
\* away from the chunk.
TraceRays ==
    {ScenarioRay,
     [origin |-> <<0 - UNIT, HalfVoxel, HalfVoxel>>,
      direction |-> <<PlusOne, MinusZero, MinusZero>>],
     [origin |-> <<CHUNK_WORLD + UNIT, CHUNK_WORLD - HalfVoxel, CHUNK_WORLD - HalfVoxel>>,
      direction |-> <<MinusOne, PlusZero, PlusZero>>],
     [origin |-> <<2 * VOXEL_SIZE + HalfVoxel, HalfVoxel, HalfVoxel>>,
      direction |-> <<MinusOne, PlusZero, PlusZero>>],
     [origin |-> <<HalfVoxel, 0 - UNIT, HalfVoxel>>,
      direction |-> <<PlusZero, PlusOne, PlusZero>>],
     [origin |-> <<0 - UNIT, 0 - UNIT + HalfVoxel, HalfVoxel>>,
      direction |-> <<PlusOne, PlusOne, PlusZero>>],
     [origin |-> <<0 - UNIT, HalfVoxel, HalfVoxel>>,
      direction |-> <<MinusOne, PlusZero, PlusZero>>]}

InitTrace ==
    /\ chunk = ChunkNew(<<0, 0, 0>>)
    /\ written = [p \in LocalPositions \cup DescentPositions |-> NeverWritten]
    /\ chunks = <<>>
    /\ render_distance = 8
    /\ ray \in TraceRays
    /\ last = [op |-> "init"]
    /\ nwrites = 0
    /\ call = IdleCall
    /\ own_node = new_empty

\* Positions and ids written before tracing
TracePositions == {<<0, 0, 0>>, <<1, 0, 0>>, <<16, 0, 0>>, <<31, 31, 31>>}

TraceIds == {0, 7}

DoSetVoxelTraced == SetVoxelStep(TracePositions, TraceIds)

DoTraceChunk ==
    /\ last' = [op |-> "trace_chunk", hit |-> trace_chunk(ray, chunk)]
    /\ UNCHANGED <<chunk, written, chunks, render_distance, ray, nwrites, call, own_node>>

DoTraceOctree ==
    /\ last' = [op |-> "trace_octree",
                hit |-> trace_octree(ray, chunk.octree, to_world_pos(chunk.position))]
    /\ UNCHANGED <<chunk, written, chunks, render_distance, ray, nwrites, call, own_node>>

NextTrace == DoSetVoxelTraced \/ DoTraceChunk \/ DoTraceOctree

SpecTrace == InitTrace /\ [][NextTrace]_vars

----------------------------------------------------------------------------
(* Voxel writes and the is_dirty flag, on the directly owned chunk and on a  *)
(* world that already holds the chunks around the origin                     *)

\* the resident map after set_render_distance(1) and
\* update_around_player(origin) on a new world
ResidentAroundOrigin == update_around_player(<<>>, 1, <<0, 0, 0>>)

InitResident ==
    /\ chunk = ChunkNew(<<0, 0, 0>>)
    /\ written = [p \in LocalPositions \cup DescentPositions |-> NeverWritten]
    /\ chunks = ResidentAroundOrigin
    /\ render_distance = 1
    /\ ray = [origin |-> <<0, 0, 0>>, direction |-> <<0, 0, 0>>]
    /\ last = [op |-> "init"]
    /\ nwrites = 0
    /\ call = IdleCall
    /\ own_node = new_empty

\* a caller takes a resident chunk through get_chunk_mut and clears is_dirty
DoWorldMarkClean ==
    \E world_pos \in WorldPositions :
        LET chunk_pos == world_to_chunk_and_local(world_pos).chunk_pos
        IN /\ call.pc = "idle"
           /\ chunk_pos \in DOMAIN chunks
           /\ chunks[chunk_pos].is_dirty
           /\ chunks' = [chunks EXCEPT ![chunk_pos].is_dirty = FALSE]
           /\ last' = [op |-> "world_mark_clean", chunk_pos |-> chunk_pos]
           /\ UNCHANGED <<chunk, written, render_distance, ray, nwrites, call, own_node>>

NextDirty == DoSetVoxelTraced \/ DoMarkClean \/ DoWorldSetVoxel \/ DoWorldMarkClean

SpecDirty == InitResident /\ [][NextDirty]_vars

----------------------------------------------------------------------------
(* OctreeNode::set_child and remove_child on a node a caller owns, next to   *)
(* set_voxel on the directly owned chunk                                     *)

\* octants the caller names: the first, one in the middle, the last
NodeOctants == {0, 3, 7}

DoSetChild ==
    \E child_index \in NodeOctants, leaf \in BOOLEAN :
        /\ own_node' = set_child(own_node, child_index, leaf)
        /\ last' = [op |-> "set_child", child_index |-> child_index, leaf |-> leaf]
        /\ UNCHANGED <<chunk, written, chunks, render_distance, ray, nwrites, call>>

DoRemoveChild ==
    \E child_index \in NodeOctants :
        /\ own_node' = remove_child(own_node, child_index)
        /\ last' = [op |-> "remove_child", child_index |-> child_index,
                    was_leaf |-> is_leaf(own_node, child_index)]
        /\ UNCHANGED <<chunk, written, chunks, render_distance, ray, nwrites, call>>

NextNode == DoSetChild \/ DoRemoveChild \/ DoSetVoxelTraced

SpecNode == Init /\ [][NextNode]_vars

----------------------------------------------------------------------------
(* set_voxel and get_voxel on a dense region of the directly owned chunk     *)

DoSetVoxelDense == SetVoxelStepBounded(DescentPositions, {7}, MaxDescentWrites)

DoGetVoxelDense ==
    \E p \in {<<0, 0, 0>>, <<18, 2, 2>>} :
        /\ ~(last.op = "set_voxel" /\ last.panic)
        /\ last' = [op |-> "get_voxel", pos |-> p, id |-> 0,
                    ret |-> ChunkGetVoxel(chunk, p),
                    fresh |-> written[p] = NeverWritten,
                    panic |-> SvoGetVoxel(chunk.octree, p).panic]
        /\ UNCHANGED <<chunk, written, chunks, render_distance, ray, nwrites, call, own_node>>

NextDescent == DoSetVoxelDense \/ DoGetVoxelDense

SpecDescent == Init /\ [][NextDescent]_vars

----------------------------------------------------------------------------
(* trace_chunk, one iteration of the DDA loop at a time.  call holds the     *)
(* locals of dda_traverse: current_pos, side_dist and the loop counter i.    *)

\* A ray whose origin has a NaN z: the box test accepts it on x and y, and
\* current_pos.z and side_dist.z are NaN
NanRay == [origin |-> <<0 - UNIT, HalfVoxel, F_NAN>>,
           direction |-> <<PlusOne, PlusZero, PlusZero>>]

InitDda ==
    /\ chunk = ChunkNew(<<0, 0, 0>>)
    /\ written = [p \in LocalPositions \cup DescentPositions |-> NeverWritten]
    /\ chunks = <<>>
    /\ render_distance = 8
    /\ ray \in TraceRays \cup {NanRay}
    /\ last = [op |-> "init"]
    /\ nwrites = 0
    /\ call = IdleCall
    /\ own_node = new_empty

\* a loop counter that does not advance
DdaSameIteration(i) == i

\* the range iterator of `for _ in 0..MAX_RAY_STEPS`
DdaNextIteration(i) == i + 1

DoSetVoxelBeforeTrace ==
    /\ call.pc = "idle"
    /\ SetVoxelStep({<<0, 0, 0>>, <<1, 0, 0>>}, {7})

\* trace_chunk up to the first iteration of the loop, or to its return when
\* the ray does not enter the chunk
DoTraceChunkBegin ==
    /\ call.pc = "idle"
    /\ LET chunk_min == to_world_pos(chunk.position)
           i == ray_aabb_intersect(ray, chunk_min, ChunkMax(chunk_min))
           local_pos == VecSub(RayAt(ray, FMax(i.t_near, T_EPS)), chunk_min)
           current_pos == DdaFloor(local_pos)
       IN call' = IF i.some /\ FLt(0, i.t_far)
                  THEN [pc |-> "dda", current_pos |-> current_pos,
                        side_dist |-> DdaSideDist(ray, current_pos, local_pos),
                        i |-> 0, ended |-> "", result |-> new_miss]
                  ELSE [pc |-> "returned", current_pos |-> <<0, 0, 0>>,
                        side_dist |-> <<0, 0, 0>>,
                        i |-> 0, ended |-> "no_intersection", result |-> new_miss]
    /\ UNCHANGED <<chunk, written, chunks, render_distance, ray, last, nwrites, own_node>>

\* one iteration of the for loop, or its end when the range is exhausted
DoDdaIterate ==
    /\ call.pc = "dda"
    /\ LET chunk_min == to_world_pos(chunk.position)
           voxel_id == ChunkGetVoxel(chunk, DdaLocalVoxelPos(call.current_pos))
           delta == DdaDelta(ray)
           axis == DdaAxis(call.side_dist)
       IN call' =
            IF call.i >= MAX_RAY_STEPS
            THEN [call EXCEPT !.pc = "returned", !.ended = "cap", !.result = new_miss]
            ELSE IF ~InChunkBounds(call.current_pos)
            THEN [call EXCEPT !.pc = "returned", !.ended = "bounds", !.result = new_miss]
            ELSE IF is_solid(voxel_id)
            THEN [call EXCEPT !.pc = "returned", !.ended = "solid",
                              !.result = DdaHit(ray, chunk_min, call.current_pos,
                                                call.side_dist, delta, voxel_id)]
            ELSE [call EXCEPT !.current_pos[axis] = FAdd(@, Signum(ray.direction[axis])),
                              !.side_dist[axis] = FAdd(@, delta[axis]),
                              !.i = DdaNextIteration(@)]
    /\ UNCHANGED <<chunk, written, chunks, render_distance, ray, last, nwrites, own_node>>

\* trace_chunk returns its RayHit
DoTraceChunkReturn ==
    /\ call.pc = "returned"
    /\ call' = IdleCall
    /\ last' = [op |-> "trace_chunk", hit |-> call.result, iterations |-> call.i,
                ended |-> call.ended]
    /\ UNCHANGED <<chunk, written, chunks, render_distance, ray, nwrites, own_node>>

NextDda == DoSetVoxelBeforeTrace \/ DoTraceChunkBegin \/ DoDdaIterate \/ DoTraceChunkReturn

\* the loop is executed by the calling thread, which keeps running
SpecDda == InitDda /\ [][NextDda]_vars /\ WF_vars(DoDdaIterate)

----------------------------------------------------------------------------
(* update_around_player, one step at a time, on a world that already holds   *)
(* the chunks around the origin.  call holds the locals of the call:         *)
(* player_chunk, chunks_to_generate, the generation tasks still running, the *)
(* chunks they returned, the chunks still to insert, chunks_to_remove; and   *)
(* `before`, the map as it was when the call started.                        *)

\* the viewpoints the player moves between: chunk (0,0,0) and chunk (1,0,0)
StreamViewpoints == {<<0, 0, 0>>, <<CHUNK_WORLD, 0, 0>>}

\* the positions of the box in the order of the nested x, y, z loops
BoxSeq(player_chunk, rd) ==
    LET n == 2 * rd + 1
    IN [k \in 1..(n * n * n) |->
           <<player_chunk[1] - rd + ((k - 1) \div (n * n)),
             player_chunk[2] - rd + (((k - 1) \div n) % n),
             player_chunk[3] - rd + ((k - 1) % n)>>]

\* chunks_to_generate as the Vec the loops fill
ChunksToGenerateSeq(chs, player_chunk, rd) ==
    LET missing(chunk_pos) == chunk_pos \notin DOMAIN chs
    IN SelectSeq(BoxSeq(player_chunk, rd), missing)

\* a generation task that returns the chunk without generating its terrain
GenerateTaskUngenerated(chunk_pos) == ChunkNew(chunk_pos)

\* the closure of the parallel map: VoxelChunk::new(pos), generate_terrain
GenerateTask(chunk_pos) == generate_terrain(ChunkNew(chunk_pos))

\* a collect that returns while tasks are running
CollectReturnsEarly(c) == TRUE

\* collect() returns when every task of the parallel iterator has completed
CollectReturns(c) == c.running = {}

\* a loop over new_chunks that is left before it is exhausted
InsertionsDoneEarly(c) == TRUE

\* the for loop over new_chunks is exhausted
InsertionsDone(c) == c.to_insert = <<>>

\* lines 158-177: player_chunk and chunks_to_generate; the tasks are spawned
DoUpdateScan ==
    \E player_pos \in StreamViewpoints :
        /\ call.pc = "idle"
        /\ LET player_chunk == from_world_pos(player_pos)
               to_generate == ChunksToGenerateSeq(chunks, player_chunk, render_distance)
           IN call' = [pc |-> "generate", player_pos |-> player_pos,
                       player_chunk |-> player_chunk,
                       chunks_to_generate |-> to_generate,
                       running |-> {to_generate[k] : k \in 1..Len(to_generate)},
                       new_chunks |-> <<>>, to_insert |-> <<>>,
                       chunks_to_remove |-> {}, before |-> chunks]
        /\ UNCHANGED <<chunk, written, chunks, render_distance, ray, last, nwrites, own_node>>

\* one generation task runs to completion on a worker thread
DoGenerateTask ==
    /\ call.pc = "generate"
    /\ \E chunk_pos \in call.running :
        /\ call' = [call EXCEPT
                       !.running = @ \ {chunk_pos},
                       !.new_chunks = [q \in (DOMAIN @) \cup {chunk_pos} |->
                                          IF q = chunk_pos THEN GenerateTask(chunk_pos)
                                          ELSE @[q]]]
        /\ UNCHANGED <<chunk, written, chunks, render_distance, ray, last, nwrites, own_node>>

\* collect() returns new_chunks, in the order of chunks_to_generate
DoCollect ==
    /\ call.pc = "generate"
    /\ CollectReturns(call)
    /\ call' = [call EXCEPT
                   !.pc = "insert",
                   !.to_insert = LET returned(chunk_pos) == chunk_pos \in DOMAIN call.new_chunks
                                 IN SelectSeq(call.chunks_to_generate, returned)]
    /\ UNCHANGED <<chunk, written, chunks, render_distance, ray, last, nwrites, own_node>>

\* one iteration of "Add generated chunks"
DoInsertChunk ==
    /\ call.pc = "insert"
    /\ ~InsertionsDone(call)
    /\ LET chunk_pos == Head(call.to_insert)
       IN chunks' = [q \in (DOMAIN chunks) \cup {chunk_pos} |->
                        IF q = chunk_pos THEN call.new_chunks[chunk_pos] ELSE chunks[q]]
    /\ call' = [call EXCEPT !.to_insert = Tail(@)]
    /\ UNCHANGED <<chunk, written, render_distance, ray, last, nwrites, own_node>>

\* chunks_to_remove: the filter over the keys of the map
DoFilterDistant ==
    /\ call.pc = "insert"
    /\ InsertionsDone(call)
    /\ call' = [call EXCEPT
                   !.pc = "remove",
                   !.chunks_to_remove = ChunksToRemove(DOMAIN chunks, call.player_chunk,
                                                       render_distance)]
    /\ UNCHANGED <<chunk, written, chunks, render_distance, ray, last, nwrites, own_node>>

\* one iteration of the removal loop; the Vec has the map's iteration order
DoRemoveChunk ==
    /\ call.pc = "remove"
    /\ \E chunk_pos \in call.chunks_to_remove :
        /\ chunks' = RemoveAll(chunks, {chunk_pos})
        /\ call' = [call EXCEPT !.chunks_to_remove = @ \ {chunk_pos}]
        /\ UNCHANGED <<chunk, written, render_distance, ray, last, nwrites, own_node>>

DoUpdateReturn ==
    /\ call.pc = "remove"
    /\ call.chunks_to_remove = {}
    /\ call' = IdleCall
    /\ last' = [op |-> "update_returned", viewpoint |-> call.player_pos,
                generated |-> Len(call.chunks_to_generate)]
    /\ UNCHANGED <<chunk, written, chunks, render_distance, ray, nwrites, own_node>>

\* the centre of voxel (31,0,0) of chunk (0,0,0): not a cell the terrain fills
EditedPosition == <<31 * VOXEL_SIZE + HalfVoxel, HalfVoxel, HalfVoxel>>

\* VoxelWorld::set_voxel between two calls of update_around_player
DoStreamSetVoxel ==
    /\ call.pc = "idle"
    /\ nwrites < MaxWorldWrites
    /\ nwrites' = nwrites + 1
    /\ chunks' = WorldSetVoxel(chunks, EditedPosition, 7)
    /\ last' = [op |-> "world_set", world_pos |-> EditedPosition, id |-> 7, ret |-> 0,
                resident |-> world_to_chunk_and_local(EditedPosition).chunk_pos
                                 \in DOMAIN chunks,
                was_dirty |-> chunks[<<0, 0, 0>>].is_dirty]
    /\ UNCHANGED <<chunk, written, render_distance, ray, call, own_node>>

NextStream ==
    \/ DoUpdateScan \/ DoGenerateTask \/ DoCollect \/ DoInsertChunk
    \/ DoFilterDistant \/ DoRemoveChunk \/ DoUpdateReturn
    \/ DoWorldMarkClean \/ DoStreamSetVoxel

SpecStream == InitResident /\ [][NextStream]_vars

----------------------------------------------------------------------------
(* The places that construct a LocalVoxelPos: generate_terrain's loops,      *)
(* world_to_chunk_and_local, and the DDA loop before each get_voxel sample.  *)

\* the positions of generate_terrain's loops `for z, y, x in 0..32u32`
GenerateLoopPositions == {<<x, y, z>> : x \in 0..(32 - 1), y \in 0..(32 - 1), z \in 0..(32 - 1)}

\* world positions converted: those the world is read and written at, the
\* last model unit below zero on x, the corners of chunk (-1,-1,0), infinite
\* and NaN components
ConvertedPositions ==
    WorldPositions \cup
    {<<0 - 1, 0, 0>>,
     <<0 - CHUNK_WORLD, 0 - 1, CHUNK_WORLD - 1>>,
     <<F_INF, 0 - F_INF, HalfVoxel>>,
     <<HalfVoxel, F_NAN, F_INF>>}

InitConstruct ==
    /\ chunk = ChunkNew(<<0, 0, 0>>)
    /\ written = [p \in LocalPositions \cup DescentPositions |-> NeverWritten]
    /\ chunks = <<>>
    /\ render_distance = 8
    /\ ray \in {ScenarioRay, NanRay,
                [origin |-> <<CHUNK_WORLD + UNIT, CHUNK_WORLD - HalfVoxel, CHUNK_WORLD - HalfVoxel>>,
                 direction |-> <<MinusOne, PlusZero, PlusZero>>],
                [origin |-> <<0 - UNIT, 0 - UNIT + HalfVoxel, HalfVoxel>>,
                 direction |-> <<PlusOne, PlusOne, PlusZero>>]}
    /\ last = [op |-> "init"]
    /\ nwrites = 0
    /\ call = IdleCall
    /\ own_node = new_empty

DoGenerateBeforeTrace ==
    /\ call.pc = "idle"
    /\ DoGenerateTerrain

\* world_to_chunk_and_local, as VoxelWorld::set_voxel and get_voxel call it
DoWorldToChunkAndLocal ==
    \E world_pos \in ConvertedPositions :
        /\ call.pc = "idle"
        /\ last' = [op |-> "world_to_chunk_and_local", world_pos |-> world_pos,
                    chunk_pos |-> world_to_chunk_and_local(world_pos).chunk_pos,
                    local_pos |-> world_to_chunk_and_local(world_pos).local_pos]
        /\ UNCHANGED <<chunk, written, chunks, render_distance, ray, nwrites, call, own_node>>

NextConstruct ==
    \/ DoGenerateBeforeTrace \/ DoWorldToChunkAndLocal
    \/ DoTraceChunkBegin \/ DoDdaIterate \/ DoTraceChunkReturn

SpecConstruct == InitConstruct /\ [][NextConstruct]_vars

----------------------------------------------------------------------------
(* The node pool of the directly owned chunk's octree under set_voxel,       *)
(* allocate_node, deallocate_node and clear in any order.                    *)

\* Largest pool allocate_node grows to
MaxPoolNodes == 3

\* Longest free list deallocate_node builds
MaxFreeIndices == 2

\* SparseVoxelOctree::clear
SvoClear(octree) == [octree EXCEPT !.nodes = <<new_empty>>, !.free_indices = <<>>]

DoSetVoxelPool == SetVoxelStep({<<0, 0, 0>>}, {7})

DoAllocateNode ==
    /\ Len(chunk.octree.free_indices) > 0 \/ node_count(chunk.octree) < MaxPoolNodes
    /\ chunk' = [chunk EXCEPT !.octree = allocate_node(chunk.octree).octree]
    /\ last' = [op |-> "allocate_node", index |-> allocate_node(chunk.octree).index]
    /\ UNCHANGED <<written, chunks, render_distance, ray, nwrites, call, own_node>>

\* deallocate_node with any u32 the caller holds: the root, a pool index, or
\* an index at or past the end of the pool
DoDeallocateNode ==
    \E index \in {0, 1, node_count(chunk.octree) - 1, node_count(chunk.octree)} :
        /\ Len(chunk.octree.free_indices) < MaxFreeIndices
        /\ chunk' = [chunk EXCEPT !.octree = deallocate_node(chunk.octree, index)]
        /\ last' = [op |-> "deallocate_node", index |-> index]
        /\ UNCHANGED <<written, chunks, render_distance, ray, nwrites, call, own_node>>

DoClear ==
    /\ chunk.octree # SvoClear(chunk.octree)
    /\ chunk' = [chunk EXCEPT !.octree = SvoClear(chunk.octree)]
    /\ last' = [op |-> "clear"]
    /\ UNCHANGED <<written, chunks, render_distance, ray, nwrites, call, own_node>>

NextPool == DoSetVoxelPool \/ DoAllocateNode \/ DoDeallocateNode \/ DoClear

SpecPool == Init /\ [][NextPool]_vars

----------------------------------------------------------------------------
(* The readers of the octree, get_voxel and trace_octree, on octrees three   *)
(* set_voxel calls build.                                                     *)

\* Voxel writes per run before the readers run
MaxSparseWrites == 3

\* voxels written: (1,0,0) and (3,0,0) in the size-4 node at the chunk origin,
\* and (4,8,3) in the neighbouring size-8 node
SparsePositions == {<<1, 0, 0>>, <<4, 8, 3>>, <<3, 0, 0>>}

\* voxels read: a written one and (2,0,1), the upper neighbour of (3,0,0)'s
\* size-2 node
ReadPositions == {<<1, 0, 0>>, <<2, 0, 1>>}

\* along +x through the voxels (x, 0, 1)
RowRay == [origin |-> <<0 - UNIT, HalfVoxel, VOXEL_SIZE + HalfVoxel>>,
           direction |-> <<PlusOne, PlusZero, PlusZero>>]

InitReaders ==
    /\ chunk = ChunkNew(<<0, 0, 0>>)
    /\ written = [p \in LocalPositions \cup DescentPositions |-> NeverWritten]
    /\ chunks = <<>>
    /\ render_distance = 8
    /\ ray \in {ScenarioRay, RowRay}
    /\ last = [op |-> "init"]
    /\ nwrites = 0
    /\ call = IdleCall
    /\ own_node = new_empty

\* one set_voxel call; the positions are outside the write history
DoSetVoxelSparse ==
    \E p \in SparsePositions :
        /\ nwrites < MaxSparseWrites
        /\ ~(last.op = "set_voxel" /\ last.panic)
        /\ nwrites' = nwrites + 1
        /\ chunk' = ChunkSetVoxel(chunk, p, 7)
        /\ last' = [op |-> "set_voxel", pos |-> p, id |-> 7,
                    panic |-> SvoSetVoxel(chunk.octree, p, 7).panic]
        /\ UNCHANGED <<written, chunks, render_distance, ray, call, own_node>>

\* get_voxel: out_of_range is the index past the pool, panic the index panic
\* of self.nodes[node_index as usize] that ends the call
DoGetVoxelReader ==
    \E p \in ReadPositions :
        /\ ~(last.op = "set_voxel" /\ last.panic)
        /\ last' = [op |-> "get_voxel", pos |-> p,
                    ret |-> SvoGetVoxel(chunk.octree, p).value,
                    out_of_range |-> SvoGetVoxel(chunk.octree, p).panic,
                    panic |-> SvoGetVoxel(chunk.octree, p).panic]
        /\ UNCHANGED <<chunk, written, chunks, render_distance, ray, nwrites, call, own_node>>

\* trace_octree: traverse_node indexes the pool only after its range test,
\* so the call always returns a RayHit
DoTraceOctreeReader ==
    /\ ~(last.op = "set_voxel" /\ last.panic)
    /\ last' = [op |-> "trace_octree",
                hit |-> trace_octree(ray, chunk.octree, to_world_pos(chunk.position)),
                out_of_range |-> TraceOctreeOutOfRange(ray, chunk.octree,
                                                       to_world_pos(chunk.position)),
                panic |-> FALSE]
    /\ UNCHANGED <<chunk, written, chunks, render_distance, ray, nwrites, call, own_node>>

NextReaders == DoSetVoxelSparse \/ DoGetVoxelReader \/ DoTraceOctreeReader

SpecReaders == InitReaders /\ [][NextReaders]_vars

----------------------------------------------------------------------------
(* LocalVoxelPos flat indexing: one conversion per run, on every in-range    *)
(* position and on every index of a chunk-sized array and a few past it      *)

AllLocalPositions ==
    {<<x, y, z>> : x \in 0..(CHUNK_SIZE - 1), y \in 0..(CHUNK_SIZE - 1),
                   z \in 0..(CHUNK_SIZE - 1)}

\* Indices handed to from_index past the end of the array
IndexOverrun == 2

InitIndex ==
    /\ chunk = ChunkNew(<<0, 0, 0>>)
    /\ written = [p \in LocalPositions \cup DescentPositions |-> NeverWritten]
    /\ chunks = <<>>
    /\ render_distance = 8
    /\ ray = [origin |-> <<0, 0, 0>>, direction |-> <<0, 0, 0>>]
    /\ last \in {[op |-> "have_pos", pos |-> p] : p \in AllLocalPositions}
                \cup {[op |-> "have_index", index |-> i] :
                         i \in 0..(CHUNK_VOLUME - 1 + IndexOverrun)}
    /\ nwrites = 0
    /\ call = IdleCall
    /\ own_node = new_empty

\* p.to_index(), and LocalVoxelPos::from_index of the result
DoToIndex ==
    /\ last.op = "have_pos"
    /\ last' = [op |-> "to_index", pos |-> last.pos, index |-> to_index(last.pos),
                back |-> from_index(to_index(last.pos))]
    /\ UNCHANGED <<chunk, written, chunks, render_distance, ray, nwrites, call, own_node>>

\* LocalVoxelPos::from_index(i), and to_index of the result
DoFromIndex ==
    /\ last.op = "have_index"
    /\ last' = [op |-> "from_index", index |-> last.index, pos |-> from_index(last.index),
                back |-> to_index(from_index(last.index))]
    /\ UNCHANGED <<chunk, written, chunks, render_distance, ray, nwrites, call, own_node>>

NextIndex == DoToIndex \/ DoFromIndex

SpecIndex == InitIndex /\ [][NextIndex]_vars

----------------------------------------------------------------------------
(* Eviction and return: the viewpoint moves between four chunks while a      *)
(* caller edits chunks (-1,0,0) and (0,0,-1), each of which is outside the   *)
(* box of one of the viewpoints.  `last` also carries the history of the run: the coordinates  *)
(* that left the box in an earlier call and have not re-entered it (left),   *)
(* those of them whose chunk had been written to (left_edited), and the      *)
(* resident coordinates written to since they entered (edited).  `chunk` is  *)
(* the caller's clone of the edited chunk, taken right after the write.      *)

\* the viewpoints: chunks (0,0,0), (1,0,0), (-1,0,0) and (0,0,1)
EvictViewpoints ==
    {<<0, 0, 0>>, <<CHUNK_WORLD, 0, 0>>, <<0 - CHUNK_WORLD, 0, 0>>, <<0, 0, CHUNK_WORLD>>}

\* the positions written: the centre of voxel (31,0,0) of chunk (-1,0,0) and
\* the centre of voxel (0,0,31) of chunk (0,0,-1)
EvictedEditPositions ==
    {<<0 - HalfVoxel, HalfVoxel, HalfVoxel>>, <<HalfVoxel, HalfVoxel, 0 - HalfVoxel>>}

InitEvict ==
    /\ chunk = ChunkNew(<<0, 0, 0>>)
    /\ written = [p \in LocalPositions \cup DescentPositions |-> NeverWritten]
    /\ chunks = ResidentAroundOrigin
    /\ render_distance = 1
    /\ ray = [origin |-> <<0, 0, 0>>, direction |-> <<0, 0, 0>>]
    /\ last = [op |-> "init", viewpoint |-> <<0, 0, 0>>, reentered |-> {},
               reentered_edited |-> {}, left |-> {}, left_edited |-> {}, edited |-> {}]
    /\ nwrites = 0
    /\ call = IdleCall
    /\ own_node = new_empty

\* update_around_player as one step
DoUpdateEvicting ==
    \E player_pos \in EvictViewpoints :
        LET box == BoxAround(from_world_pos(player_pos), render_distance)
            left_now == {chunk_pos \in DOMAIN chunks : chunk_pos \notin box}
        IN /\ chunks' = update_around_player(chunks, render_distance, player_pos)
           /\ last' = [op |-> "update", viewpoint |-> player_pos,
                       reentered |-> last.left \cap box,
                       reentered_edited |-> last.left_edited \cap box,
                       left |-> (last.left \ box) \cup left_now,
                       left_edited |-> (last.left_edited \ box)
                                          \cup (left_now \cap last.edited),
                       edited |-> last.edited \ left_now]
           /\ UNCHANGED <<chunk, written, render_distance, ray, nwrites, call, own_node>>

\* VoxelWorld::set_voxel; the caller clones the chunk through get_chunk when
\* it is resident
DoEvictableSetVoxel ==
    \E world_pos \in EvictedEditPositions :
    LET chunk_pos == world_to_chunk_and_local(world_pos).chunk_pos
    IN /\ nwrites < MaxWorldWrites
       /\ nwrites' = nwrites + 1
       /\ chunks' = WorldSetVoxel(chunks, world_pos, 7)
       /\ chunk' = IF chunk_pos \in DOMAIN chunks THEN chunks'[chunk_pos] ELSE chunk
       /\ last' = [last EXCEPT !.op = "world_set", !.reentered = {}, !.reentered_edited = {},
                               !.edited = IF chunk_pos \in DOMAIN chunks
                                          THEN @ \cup {chunk_pos} ELSE @]
       /\ UNCHANGED <<written, render_distance, ray, call, own_node>>

\* a caller takes a written chunk through get_chunk_mut and clears is_dirty
DoEvictableMarkClean ==
    \E world_pos \in EvictedEditPositions :
    LET chunk_pos == world_to_chunk_and_local(world_pos).chunk_pos
    IN /\ chunk_pos \in DOMAIN chunks
       /\ chunks[chunk_pos].is_dirty
       /\ chunks' = [chunks EXCEPT ![chunk_pos].is_dirty = FALSE]
       /\ last' = [last EXCEPT !.op = "world_mark_clean", !.reentered = {},
                               !.reentered_edited = {}]
       /\ UNCHANGED <<chunk, written, render_distance, ray, nwrites, call, own_node>>

NextEvict == DoUpdateEvicting \/ DoEvictableSetVoxel \/ DoEvictableMarkClean

SpecEvict == InitEvict /\ [][NextEvict]_vars

----------------------------------------------------------------------------
(* Properties of the octree and the chunk *)

\* The chunk reads as air everywhere: no pool node carries an id (get_voxel
\* returns air or some pool node's voxel_id), and the sampled positions read air.
HoldsNoVoxels(c) ==
    /\ \A i \in 1..Len(c.octree.nodes) : c.octree.nodes[i].voxel_id = AIR_VOXEL
    /\ \A p \in LocalPositions : ChunkGetVoxel(c, p) = AIR_VOXEL

\* C1: after set_voxel(p, v), for any local position p and any id v including
\* air, get_voxel(p) returns v.
C1_SetThenGet ==
    last.op = "set_voxel" => ChunkGetVoxel(chunk, last.pos) = last.id

\* C2: set_voxel(p, air) on a position p that was never written leaves the
\* octree unchanged (same node_count, no node allocated, no mask bit changed).
C2_AirOnUnwrittenIsNoOp ==
    [][(last'.op = "set_voxel" /\ last'.id = AIR_VOXEL /\ last'.fresh /\ nwrites' # nwrites)
        => chunk'.octree = chunk.octree]_vars

\* C2 witness: air was written to the never-written (1,0,0) while its
\* neighbour (0,0,0) in the same size-2 node holds a solid write.
C2_Witness ==
    /\ last.op = "set_voxel" /\ last.id = AIR_VOXEL /\ last.fresh
    /\ last.pos = <<1, 0, 0>>
    /\ written[<<0, 0, 0>>] = 7
    /\ node_count(chunk.octree) = 5

\* C3: a chunk whose octree holds no voxels (get_voxel is air everywhere),
\* fresh or reached by set_voxel calls, has is_empty() and node_count() == 1.
C3_NoVoxelsMeansEmpty ==
    HoldsNoVoxels(chunk) => (is_empty(chunk) /\ node_count(chunk.octree) = 1)

\* C11: generate_terrain on a chunk whose is_generated flag is already true
\* changes nothing (octree, is_dirty, is_generated, position), and once
\* is_generated is true no operation sets it back to false.
C11_GenerateOnce ==
    [][/\ (last'.op = "generate_terrain" /\ last'.was_generated /\ last' # last)
            => chunk' = chunk
       /\ chunk.is_generated => chunk'.is_generated]_vars

\* C11 witness: generate_terrain was called on a chunk that was already
\* generated, had been written to, and whose is_dirty flag was clear
C11_Witness ==
    /\ last.op = "generate_terrain" /\ last.was_generated
    /\ chunk.is_generated /\ ~chunk.is_dirty
    /\ nwrites > 0

\* C13: in every octree state reached by set_voxel calls, for every node n and
\* every octant i set in n.child_mask and not in n.leaf_mask, the pool node
\* allocated for that child is at n.child_ptr + popcount(n.child_mask & ((1 << i) - 1)):
\* children are stored contiguously in octant order.  Stated on the children
\* the last set_voxel call allocated.
C13_ChildrenContiguous ==
    last.op = "set_voxel" =>
        \A k \in 1..Len(last.created) :
            LET n == NodeAt(chunk.octree, last.created[k].parent)
            IN (has_child(n, last.created[k].octant) /\ ~is_leaf(n, last.created[k].octant))
                  => ChildNodeIndex(n, last.created[k].octant) = last.created[k].index

\* leaf_mask & ~child_mask == 0
LeafSubsetOfChild(n) == \A i \in 0..7 : is_leaf(n, i) => has_child(n, i)

\* C14: in every reachable octree state every node's leaf_mask is a subset of
\* its child_mask, after any sequence of set_child, remove_child and set_voxel
\* operations.
C14_LeafMaskSubset ==
    /\ LeafSubsetOfChild(own_node)
    /\ \A i \in 1..Len(chunk.octree.nodes) : LeafSubsetOfChild(chunk.octree.nodes[i])

\* C14 witness: a leaf child was removed from a node that keeps a leaf and an
\* internal child, and the octree holds a node with a leaf child
C14_Witness ==
    /\ last.op = "remove_child" /\ last.was_leaf
    /\ own_node.leaf_mask # 0 /\ own_node.child_mask # own_node.leaf_mask
    /\ \E i \in 1..Len(chunk.octree.nodes) : chunk.octree.nodes[i].leaf_mask # 0

\* C15: for any sequence of set_voxel and get_voxel calls with in-range local
\* positions, every node-pool index computed during descent is less than
\* node_count(): no pool access is out of range.
C15_DescentInRange ==
    (last.op = "set_voxel" \/ last.op = "get_voxel") => ~last.panic

\* C12: after any voxel write to a chunk, through VoxelChunk::set_voxel or
\* through VoxelWorld::set_voxel on a resident chunk, with any id including
\* air, that chunk's is_dirty flag is true.
C12_WriteSetsDirty ==
    /\ last.op = "set_voxel" => chunk.is_dirty
    /\ (last.op = "world_set" /\ last.resident)
          => chunks[world_to_chunk_and_local(last.world_pos).chunk_pos].is_dirty

\* C12 witness: air was written through the world to a resident chunk whose
\* is_dirty flag had been cleared
C12_Witness ==
    /\ last.op = "world_set" /\ last.resident /\ ~last.was_dirty
    /\ last.id = AIR_VOXEL

\* the same on the directly owned chunk
C12_WitnessChunk ==
    /\ last.op = "set_voxel" /\ ~last.was_dirty
    /\ last.id = AIR_VOXEL

----------------------------------------------------------------------------
(* Properties of the DDA traversal *)

\* trace_chunk has returned, after at most MAX_RAY_STEPS iterations, with a
\* miss unless a solid cell was sampled
DdaReturned ==
    /\ call.pc = "returned"
    /\ call.i <= MAX_RAY_STEPS
    /\ call.ended = "cap" => (call.i = MAX_RAY_STEPS /\ call.result = new_miss)
    /\ call.ended = "bounds" => (~InChunkBounds(call.current_pos) /\ call.result = new_miss)
    /\ call.ended = "solid" => call.result.hit
    /\ call.ended = "no_intersection" => call.result = new_miss

\* C16: trace_chunk always terminates: the DDA loop runs at most MAX_RAY_STEPS
\* iterations, ends early when the current cell leaves the chunk bounds or a
\* solid cell is sampled, and returns a miss when the cap is reached.
C16_DdaTerminates == (call.pc = "dda") ~> DdaReturned

\* C16 witness: the loop ran all MAX_RAY_STEPS iterations and trace_chunk
\* returned a miss
C16_Witness ==
    /\ call.pc = "returned" /\ call.ended = "cap"
    /\ call.i = MAX_RAY_STEPS /\ ~call.result.hit

\* the loop ended when the cell left the chunk, after crossing it
C16_WitnessBounds ==
    /\ call.pc = "returned" /\ call.ended = "bounds"
    /\ call.i = CHUNK_SIZE

----------------------------------------------------------------------------
(* Properties of the world *)

\* chunk coordinates around the viewpoints, wide enough to hold every box
ChunkGrid ==
    LET r == MaxRenderDistance + 3
    IN {<<x, y, z>> : x \in (0 - r)..r, y \in (0 - r)..r, z \in (0 - r)..r}

\* box metric: every axis within rd of the centre
WithinRenderDistance(chunk_pos, centre, rd) ==
    /\ Abs(chunk_pos[1] - centre[1]) <= rd
    /\ Abs(chunk_pos[2] - centre[2]) <= rd
    /\ Abs(chunk_pos[3] - centre[3]) <= rd

\* C4: after update_around_player(v) the resident coordinates are exactly the
\* coordinates within render_distance (box metric) of v's chunk, whatever was
\* resident before.
C4_ResidentIsBox ==
    last.op = "update" =>
        /\ \A c \in DOMAIN chunks : WithinRenderDistance(c, last.player_chunk, render_distance)
        /\ \A c \in ChunkGrid :
               WithinRenderDistance(c, last.player_chunk, render_distance) => c \in DOMAIN chunks

\* C4 witness: render distance 1 around chunk (0,0,0), reached from another
\* resident set: exactly 27 chunks, some generated and some evicted by the call.
C4_Witness ==
    /\ last.op = "update" /\ last.player_chunk = <<0, 0, 0>> /\ render_distance = 1
    /\ Cardinality(DOMAIN chunks) = 27
    /\ last.generated # {} /\ last.removed # {}

\* C5: a second consecutive update_around_player with the same viewpoint (and
\* render distance) generates no chunk, evicts no chunk and leaves the
\* resident chunks unchanged.
C5_UpdateIdempotent ==
    [][(last.op = "update" /\ last'.op = "update" /\ last'.viewpoint = last.viewpoint)
        => (last'.generated = {} /\ last'.removed = {} /\ chunks' = chunks)]_vars

\* C5 witness: an update after which the first call had work to do is
\* followed by a call that finds nothing to generate or evict.
C5_Witness ==
    /\ last.op = "update" /\ last.generated = {} /\ last.removed = {}
    /\ Cardinality(DOMAIN chunks) = 27

\* C6: VoxelWorld::get_voxel on a position whose chunk is not resident returns
\* air and changes nothing in the world (no chunk is created).
C6_GetNonResidentIsAir ==
    [][(last'.op = "world_get" /\ ~last'.resident)
        => (last'.ret = AIR_VOXEL /\ chunks' = chunks /\ render_distance' = render_distance)]_vars

\* C6 witness: a read of a non-resident chunk while other chunks are resident
C6_Witness ==
    /\ last.op = "world_get" /\ ~last.resident /\ last.ret = AIR_VOXEL
    /\ DOMAIN chunks # {}

\* C7: VoxelWorld::set_voxel on a position whose chunk is not resident changes
\* nothing: same resident set, same chunks (octrees and flags), no chunk created.
C7_SetNonResidentIsNoOp ==
    [][(last'.op = "world_set" /\ ~last'.resident /\ nwrites' # nwrites)
        => (chunks' = chunks /\ render_distance' = render_distance)]_vars

\* C7 witness: a solid write to a non-resident chunk while other chunks are resident
C7_Witness ==
    /\ last.op = "world_set" /\ ~last.resident /\ last.id = 7
    /\ DOMAIN chunks # {}
    /\ world_to_chunk_and_local(last.world_pos).chunk_pos \notin DOMAIN chunks

----------------------------------------------------------------------------
(* Properties of ray_aabb_intersect *)

StrictlyInside(origin, min, max) ==
    \A a \in 1..3 : min[a] < origin[a] /\ origin[a] < max[a]

OutsideBox(origin, min, max) ==
    \E a \in 1..3 : origin[a] < min[a] \/ origin[a] > max[a]

\* The direction points away from the box: every point q of the box has
\* direction . (q - origin) < 0.  The maximum over the box is taken per axis.
PointsAway(r, min, max) ==
    LET best(a) == Max2(DirValue(r.direction[a]) * (min[a] - r.origin[a]),
                        DirValue(r.direction[a]) * (max[a] - r.origin[a]))
    IN best(1) + best(2) + best(3) < 0

\* C10: ray_aabb_intersect returns None for a ray whose origin is outside the
\* box and whose direction points away from it, and Some((t_near, t_far)) with
\* t_near == 0 and t_far > 0 for a ray whose origin is strictly inside the box,
\* also when one or two direction components are zero.
C10_AabbAwayAndInside ==
    last.op = "ray_aabb_intersect" =>
        /\ (OutsideBox(ray.origin, last.min, last.max) /\ PointsAway(ray, last.min, last.max))
               => ~last.result.some
        /\ StrictlyInside(ray.origin, last.min, last.max)
               => (last.result.some /\ last.result.t_near = 0 /\ FLt(0, last.result.t_far))

\* C10 witness: an origin strictly inside the box, two zero direction
\* components (one of them -0.0), answered Some((0, t_far)) with finite t_far.
C10_Witness ==
    /\ last.op = "ray_aabb_intersect"
    /\ StrictlyInside(ray.origin, last.min, last.max)
    /\ ray.direction[2] = [sign |-> 0 - 1, mag |-> 0] /\ ray.direction[3].mag = 0
    /\ last.result.some /\ last.result.t_near = 0
    /\ last.result.t_far > 0 /\ last.result.t_far < F_INF

\* a ray outside the box that points away from it was answered None
C10_WitnessAway ==
    /\ last.op = "ray_aabb_intersect"
    /\ OutsideBox(ray.origin, last.min, last.max) /\ PointsAway(ray, last.min, last.max)
    /\ \E a \in 1..3 : ray.direction[a].mag = 0
    /\ ~last.result.some

----------------------------------------------------------------------------
(* Properties of the ray traversals *)

Traced == last.op = "trace_chunk" \/ last.op = "trace_octree"

\* the chunk's write history is exactly: local (0,0,0) set to material 7
OnlyOriginVoxelIs7 ==
    /\ chunk.position = <<0, 0, 0>>
    /\ nwrites = 1
    /\ \A p \in LocalPositions : written[p] = (IF p = <<0, 0, 0>> THEN 7 ELSE NeverWritten)

\* C8: chunk at (0,0,0) whose only written voxel is local (0,0,0) = material 7;
\* the ray from (-1, 0.0625, 0.0625) along (1,0,0) traced against it reports a
\* hit with material_id 7, hit position at world x about 0 (within a voxel),
\* and normal (-1,0,0).
C8_ScenarioHit ==
    (Traced /\ OnlyOriginVoxelIs7 /\ ray = ScenarioRay) =>
        /\ last.hit.hit
        /\ last.hit.material_id = 7
        /\ Abs(last.hit.position[1]) <= VOXEL_SIZE
        /\ last.hit.normal = <<0 - 1, 0, 0>>

\* the box of the voxel at local position p of chunk c
VoxelMin(c, p) == VoxelWorldPos(to_world_pos(c.position), p)

VoxelMax(c, p) ==
    <<VoxelMin(c, p)[1] + VOXEL_SIZE, VoxelMin(c, p)[2] + VOXEL_SIZE,
      VoxelMin(c, p)[3] + VOXEL_SIZE>>

\* some position last written with a solid id lies on the ray's path
SolidWrittenOnPath ==
    \E p \in LocalPositions :
        /\ written[p] # NeverWritten /\ is_solid(written[p])
        /\ ray_aabb_intersect(ray, VoxelMin(chunk, p), VoxelMax(chunk, p)).some

----------------------------------------------------------------------------
(* Properties of the steps of update_around_player *)

\* the call in progress has not returned
InCall(c) == c.pc # "idle"

\* chunks resident when the call started that lie inside the new box
KeptByCall(c) ==
    {chunk_pos \in DOMAIN c.before :
        WithinRenderDistance(chunk_pos, c.player_chunk, render_distance)}

\* C17: within one update_around_player call every insertion of a newly
\* generated chunk happens before any eviction, and a chunk that is resident
\* before the call and lies inside the new box is present in the map in every
\* intermediate state of the call.
C17_InsertBeforeEvict ==
    [][/\ (\E chunk_pos \in DOMAIN chunks : chunk_pos \notin DOMAIN chunks')
            => (call.pc = "remove" /\ call.to_insert = <<>>
                /\ DOMAIN call.new_chunks \subseteq DOMAIN chunks)
       /\ (\E chunk_pos \in DOMAIN chunks' : chunk_pos \notin DOMAIN chunks)
            => call.pc = "insert"
       /\ InCall(call') => KeptByCall(call') \subseteq DOMAIN chunks']_vars

\* C17 witness: an eviction has been made in a call that inserted new chunks
\* and keeps chunks, with more evictions to come
C17_Witness ==
    /\ call.pc = "remove"
    /\ Len(call.chunks_to_generate) > 0
    /\ KeptByCall(call) # {}
    /\ call.chunks_to_remove # {}
    /\ \E chunk_pos \in DOMAIN call.before : chunk_pos \notin DOMAIN chunks

\* C18: a chunk that is resident before update_around_player and whose
\* coordinate lies inside the new box is kept as it is: not regenerated or
\* replaced, its octree, is_dirty and is_generated exactly as before the call.
C18_KeptChunkUntouched ==
    [][InCall(call)
          => \A chunk_pos \in KeptByCall(call) :
                 chunk_pos \in DOMAIN chunks' /\ chunks'[chunk_pos] = call.before[chunk_pos]]_vars

\* C18 witness: a call that moved the box is about to return, having kept a
\* chunk whose octree a write had changed and whose is_dirty flag was clear
C18_Witness ==
    /\ call.pc = "remove" /\ call.chunks_to_remove = {}
    /\ Len(call.chunks_to_generate) > 0
    /\ \E chunk_pos \in KeptByCall(call) :
           /\ ~chunks[chunk_pos].is_dirty
           /\ chunks[chunk_pos].octree # generate_terrain(ChunkNew(chunk_pos)).octree

\* C19: during update_around_player the resident map is not mutated while a
\* generation task is running: the first insertion happens only after every
\* generation task of the call has completed, and the insertions and removals
\* are steps of the calling owner, never of a task.
C19_MapMutatedAfterTasks ==
    [][/\ (InCall(call) /\ chunks' # chunks)
            => (call.running = {}
                /\ DOMAIN call.new_chunks
                      = {call.chunks_to_generate[k] : k \in 1..Len(call.chunks_to_generate)}
                /\ call.pc \in {"insert", "remove"})
       /\ (InCall(call) /\ InCall(call') /\ call'.running # call.running)
            => chunks' = chunks]_vars

\* C19 witness: the first insertion of a call that ran several tasks
C19_Witness ==
    /\ call.pc = "insert"
    /\ Len(call.chunks_to_generate) > 1
    /\ Len(call.to_insert) = Len(call.chunks_to_generate) - 1
    /\ DOMAIN chunks # DOMAIN call.before

\* C20: the world state after update_around_player (the resident set and the
\* content of every generated chunk) is the same for every scheduling and
\* completion order of the generation tasks: it is the function
\* update_around_player of the map before the call and the viewpoint.
C20_ScheduleIndependent ==
    [][(call.pc = "remove" /\ call'.pc = "idle")
          => chunks' = update_around_player(call.before, render_distance, call.player_pos)]_vars

\* C20 witness: a call that ran several generation tasks, which could complete
\* in any order, has returned
C20_Witness ==
    /\ last.op = "update_returned" /\ last.generated > 1
    /\ call.pc = "idle"

----------------------------------------------------------------------------
(* Properties of the node pool *)

\* C21: index 0 (the root) is never placed on the free list: deallocate_node
\* ignores index 0 and any index >= node_count(), so every free-list entry is
\* a valid non-root pool index, and the node of an index is reset to empty
\* when the index is placed on the list.
C21_FreeListValid ==
    /\ [](\A k \in 1..Len(chunk.octree.free_indices) :
            /\ chunk.octree.free_indices[k] > 0
            /\ chunk.octree.free_indices[k] < node_count(chunk.octree))
    /\ [][last'.op = "deallocate_node" /\ last' # last =>
            IF last'.index > 0 /\ last'.index < node_count(chunk.octree)
            THEN /\ chunk'.octree.free_indices
                       = Append(chunk.octree.free_indices, last'.index)
                 /\ NodeAt(chunk'.octree, last'.index) = new_empty
            ELSE chunk'.octree = chunk.octree]_vars

\* C21 witness: deallocate_node(0) was ignored on an octree whose free list
\* already holds an index, and whose root has children
C21_Witness ==
    /\ last.op = "deallocate_node" /\ last.index = 0
    /\ Len(chunk.octree.free_indices) > 0
    /\ NodeAt(chunk.octree, 0).child_mask # 0

\* C21 witness: an index at the end of the pool was ignored
C21_WitnessPastEnd ==
    /\ last.op = "deallocate_node" /\ last.index >= node_count(chunk.octree)
    /\ node_count(chunk.octree) > 1

\* the pool indices get_voxel's descent to target_pos visits
RECURSIVE DescentPath(_, _, _, _, _)
DescentPath(octree, node_index, node_size, node_pos, target_pos) ==
    IF ~InPool(octree, node_index) THEN {}
    ELSE IF ~(node_size > 1) THEN {node_index}
    ELSE
      LET half_size == node_size \div 2
          child_offset == ChildOffset(target_pos, node_pos, half_size)
          child_index == ChildIndex(child_offset)
          next_pos == <<node_pos[1] + child_offset[1] * half_size,
                        node_pos[2] + child_offset[2] * half_size,
                        node_pos[3] + child_offset[3] * half_size>>
          current_node == NodeAt(octree, node_index)
      IN IF ~has_child(current_node, child_index) \/ is_leaf(current_node, child_index)
         THEN {node_index}
         ELSE {node_index} \cup DescentPath(octree, ChildNodeIndex(current_node, child_index),
                                            half_size, next_pos, target_pos)

\* C22: set_voxel(p, v) with a non-air id v continues its descent until the
\* node size reaches 1 and then stores v in the voxel_id field of the terminal
\* node, so that after the call some pool node on p's path has voxel_id == v.
C22_StoresIdOnPath ==
    (last.op = "set_voxel" /\ is_solid(last.id) /\ ~last.panic) =>
        \E i \in DescentPath(chunk.octree, 0, chunk.octree.root_size, <<0, 0, 0>>, last.pos) :
            NodeAt(chunk.octree, i).voxel_id = last.id

\* C23: a structural invariant violation met while reading the octree, a
\* computed node index that is >= node_count(), is a fail-fast fault in every
\* reader (get_voxel, trace_octree): it is never silently turned into a normal
\* result such as a miss or air.
C23_ReadersFailFast ==
    ((last.op = "get_voxel" \/ last.op = "trace_octree") /\ last.out_of_range)
        => last.panic

----------------------------------------------------------------------------
(* Properties of the coordinate model *)

\* C24: LocalVoxelPos flat indexing is a row-major bijection with x fastest:
\* to_index(p) == z*CHUNK_SIZE^2 + y*CHUNK_SIZE + x, from_index(to_index(p)) == p
\* for every in-range p, and to_index(from_index(i)) == i for every i in
\* [0, CHUNK_VOLUME).
C24_IndexBijection ==
    /\ last.op = "to_index" =>
          /\ last.index = last.pos[3] * 1024 + last.pos[2] * 32 + last.pos[1]
          /\ last.index >= 0 /\ last.index < CHUNK_VOLUME
          /\ last.back = last.pos
    /\ (last.op = "from_index" /\ last.index < CHUNK_VOLUME) =>
          /\ NewAssertionsHold(last.pos)
          /\ last.back = last.index

\* C24 witness: an index whose three components are all non-zero and
\* different was converted to a position and back
C24_Witness ==
    /\ last.op = "from_index" /\ last.index = 3 * 1024 + 2 * 32 + 1
    /\ last.pos = <<1, 2, 3>> /\ last.back = last.index

\* C24 witness: the far corner was converted to the last index and back
C24_WitnessCorner ==
    /\ last.op = "to_index" /\ last.pos = <<31, 31, 31>>
    /\ last.index = CHUNK_VOLUME - 1

\* C25: every LocalVoxelPos the program constructs itself (in generate_terrain,
\* in world_to_chunk_and_local for any world position including negative
\* coordinates, and in dda_traverse before each get_voxel sample) has all three
\* components in [0, CHUNK_SIZE), so the constructor's range assertions never
\* fail.
C25_ConstructedInRange ==
    /\ (last.op = "generate_terrain" /\ ~last.was_generated /\ call.pc = "idle") =>
          \A p \in GenerateLoopPositions : NewAssertionsHold(p)
    /\ last.op = "world_to_chunk_and_local" => NewAssertionsHold(last.local_pos)
    /\ (call.pc = "dda" /\ call.i < MAX_RAY_STEPS /\ InChunkBounds(call.current_pos)) =>
          NewAssertionsHold(DdaLocalVoxelPos(call.current_pos))

\* C25 witness: a world position with an infinite x was converted and the
\* local x is the last voxel of the chunk
C25_Witness ==
    /\ last.op = "world_to_chunk_and_local" /\ last.world_pos[1] = F_INF
    /\ last.chunk_pos[1] = I32_MAX /\ last.local_pos = <<CHUNK_SIZE - 1, 0, 0>>

\* C25 witness: the DDA loop is about to sample a cell whose z is NaN
C25_WitnessNan ==
    /\ call.pc = "dda" /\ call.i > 0 /\ IsNaN(call.current_pos[3])
    /\ InChunkBounds(call.current_pos)
    /\ DdaLocalVoxelPos(call.current_pos)[3] = 0

\* C25 witness: a position just below zero was converted to the last voxel
\* of chunk -1
C25_WitnessNegative ==
    /\ last.op = "world_to_chunk_and_local" /\ last.world_pos = <<0 - 1, 0, 0>>
    /\ last.chunk_pos = <<0 - 1, 0, 0>> /\ last.local_pos = <<CHUNK_SIZE - 1, 0, 0>>

----------------------------------------------------------------------------
(* Properties of the resident map *)

\* C26: in every reachable world state, every entry of the resident chunk map
\* is stored under a key equal to the chunk's own position field.
C26_KeyIsPosition ==
    \A chunk_pos \in DOMAIN chunks : chunks[chunk_pos].position = chunk_pos

\* C26 witness: the viewpoint moved to chunk (1,0,0), and a chunk generated by
\* that call is resident at (2,0,0) next to chunks kept from the first call
C26_Witness ==
    /\ last.op = "update_returned" /\ last.viewpoint = <<CHUNK_WORLD, 0, 0>>
    /\ <<2, 0, 0>> \in DOMAIN chunks /\ chunks[<<2, 0, 0>>].position = <<2, 0, 0>>
    /\ <<0, 1, 0 - 1>> \in DOMAIN chunks

\* C27: in every reachable world state, every chunk in the resident map has
\* is_generated == true: a chunk is inserted only after its generate_terrain
\* call has completed.
C27_ResidentIsGenerated ==
    \A chunk_pos \in DOMAIN chunks : chunks[chunk_pos].is_generated

\* C27 witness: the insert loop has inserted some of the chunks the tasks
\* returned and not yet all of them
C27_Witness ==
    /\ call.pc = "insert" /\ call.to_insert # <<>>
    /\ \E chunk_pos \in (DOMAIN chunks) \ (DOMAIN call.before) :
          chunks[chunk_pos].is_generated

----------------------------------------------------------------------------
(* Frame and growth properties of set_voxel *)

\* C28: set_voxel(p, v) does not change the value read at any other position:
\* for every local position q # p, get_voxel(q) returns the same id after the
\* call as before it, from any reachable octree state.
C28_OtherPositionsKept ==
    [][(last'.op = "set_voxel" /\ nwrites' # nwrites /\ ~last'.panic) =>
          \A q \in (ReadPositions \cup SparsePositions) \ {last'.pos} :
              SvoGetVoxel(chunk'.octree, q) = SvoGetVoxel(chunk.octree, q)]_vars

\* child_mask of n is a subset of child_mask of n2
ChildMaskKept(n, n2) == \A i \in 0..7 : has_child(n, i) => has_child(n2, i)

\* C29: under any sequence of set_voxel calls, node_count() never decreases,
\* no child_mask bit is ever cleared and the free list stays empty: writing
\* air over a previously written solid voxel reclaims no node, so a chunk for
\* which is_empty() has become false never becomes empty again.
C29_NothingReclaimed ==
    [][/\ node_count(chunk'.octree) >= node_count(chunk.octree)
       /\ \A i \in 0..(node_count(chunk.octree) - 1) :
             ChildMaskKept(NodeAt(chunk.octree, i), NodeAt(chunk'.octree, i))
       /\ chunk'.octree.free_indices = <<>>
       /\ ~is_empty(chunk) => ~is_empty(chunk')]_vars

\* C29 witness: air was written to a position that a solid id had been
\* written to before, and the four nodes of its path are still in the pool
C29_Witness ==
    /\ last.op = "set_voxel" /\ last.id = AIR_VOXEL /\ ~last.fresh
    /\ nwrites = 2 /\ node_count(chunk.octree) = 5
    /\ ~is_empty(chunk)

\* C30: edits do not survive eviction: when a chunk leaves the box on one
\* update_around_player call and its coordinate re-enters the box on a later
\* call, the resident chunk is a newly created and freshly generated chunk,
\* carrying none of the set_voxel writes made before the eviction.
C30_EditsLostOnEviction ==
    last.op = "update" =>
        \A chunk_pos \in last.reentered :
            /\ chunk_pos \in DOMAIN chunks
            /\ chunks[chunk_pos] = generate_terrain(ChunkNew(chunk_pos))
            /\ chunk_pos \in last.reentered_edited =>
                  (chunk.position = chunk_pos => chunks[chunk_pos].octree # chunk.octree)

\* C30 witness: chunk (-1,0,0) was written to, left the box, and its
\* coordinate has re-entered the box; the caller's clone holds the octree the
\* write left, which has more nodes than the regenerated one
C30_Witness ==
    /\ last.op = "update" /\ <<0 - 1, 0, 0>> \in last.reentered_edited
    /\ chunk.position = <<0 - 1, 0, 0>>
    /\ node_count(chunk.octree) > node_count(chunks[<<0 - 1, 0, 0>>].octree)
    /\ chunks[<<0 - 1, 0, 0>>].is_dirty

====
